---- MODULE Spec2Model ----
(***************************************************************************)
(* Agent run loop (backend/agent/run.py, AgentRunner.run), the stop        *)
(* protocol (backend/agent/utils.py, stop_agent_run), the concurrency-cap  *)
(* check (utils.py, check_agent_run_limit) and the tool registration       *)
(* (run.py, AgentRunner.setup_tools), each under a specification of its    *)
(* own: Spec, StopSpec and RaceSpec, AdmitSpec and AdmitRaceSpec,          *)
(* ToolSpec.  Spec is the run of an agent without agent configuration;     *)
(* ToolSpec is run() from its start to the loop for every configuration.   *)
(*                                                                         *)
(* AgentRunner.run is an async generator: it advances only while its       *)
(* consumer awaits the next chunk, and it is suspended at every yield.     *)
(* The consumer (the background worker that owns the control channels and  *)
(* the durable status) is not part of the sources; it is modelled from the *)
(* specification.                                                          *)
(***************************************************************************)
EXTENDS Integers, Sequences, FiniteSets, TLC

(***************************************************************************)
(* Bounds of the model                                                     *)
(***************************************************************************)
MaxIter == 2
MaxStream == 2

(***************************************************************************)
(* Text of assistant chunks: a text is a sequence of glyphs, a closing tag *)
(* is a particular glyph sequence, `tag in text` is substring search.      *)
(***************************************************************************)
AskTag == <<"</", "ask", ">">>
CompleteTag == <<"</", "comp", "lete", ">">>
TakeoverTag == <<"</", "web-browser-takeover", ">">>

AssistantTexts ==
    { <<"hi">>,
      <<"hi", "</", "ask", ">">>,
      <<"</", "comp", "lete", ">">>,
      <<"</", "web-browser-takeover", ">">>,
      <<"</", "comp", "lete", ">", "</", "ask", ">">>,
      <<"</", "comp">>,
      <<"lete", ">">> }

Contains(text, tag) ==
    \E i \in 1..(Len(text) - Len(tag) + 1) : SubSeq(text, i, i + Len(tag) - 1) = tag

EndsWith(text, tag) ==
    /\ Len(text) >= Len(tag)
    /\ SubSeq(text, Len(text) - Len(tag) + 1, Len(text)) = tag

SentinelNames == {"ask", "complete", "web-browser-takeover"}

SentinelToolAskLast(text) ==
    IF Contains(text, CompleteTag) THEN "complete"
    ELSE IF Contains(text, TakeoverTag) THEN "web-browser-takeover"
    ELSE IF Contains(text, AskTag) THEN "ask"
    ELSE "none"

SentinelToolNoTakeover(text) ==
    IF Contains(text, AskTag) THEN "ask"
    ELSE IF Contains(text, CompleteTag) THEN "complete"
    ELSE "none"

\* run.py 654-660: which sentinel closing tag the text of one chunk contains
SentinelTool(text) ==
    IF Contains(text, AskTag) THEN "ask"
    ELSE IF Contains(text, CompleteTag) THEN "complete"
    ELSE IF Contains(text, TakeoverTag) THEN "web-browser-takeover"
    ELSE "none"

(***************************************************************************)
(* Chunks                                                                  *)
(***************************************************************************)
NoText == <<>>

MkChunk(ty, st, term, fn, tag, text, origin) ==
    [type |-> ty, status |-> st, terminate |-> term, function_name |-> fn,
     xml_tag_name |-> tag, text |-> text, origin |-> origin]

ErrorStatusChunk == MkChunk("status", "error", FALSE, "none", "none", NoText, "stream")

StatusChunks ==
    { ErrorStatusChunk,
      MkChunk("status", "tool_started", FALSE, "web_search", "none", NoText, "stream"),
      MkChunk("status", "tool_completed", TRUE, "web_search", "none", NoText, "stream"),
      MkChunk("status", "tool_completed", TRUE, "none", "complete", NoText, "stream"),
      MkChunk("status", "tool_completed", TRUE, "none", "none", NoText, "stream") }

AssistantChunks ==
    { MkChunk("assistant", "none", FALSE, "none", "none", t, "stream") : t \in AssistantTexts }

ToolChunks == { MkChunk("tool", "none", FALSE, "none", "none", NoText, "stream") }

\* an element of the stream that is not a dict: it has no method get
NonDictChunk == MkChunk("not_a_dict", "none", FALSE, "none", "none", NoText, "stream")

\* run.py 616: what the completion engine's stream can hand over
StreamChunks == StatusChunks \cup AssistantChunks \cup ToolChunks \cup {NonDictChunk}

\* run.py 560-564: the chunk of an admission denial
BillingDeniedChunk == MkChunk("status", "stopped", FALSE, "none", "none", NoText, "loop")

\* run.py 687-691 and 696-700: the chunk of a caught exception
LoopErrorChunk == MkChunk("status", "error", FALSE, "none", "none", NoText, "loop")

\* run.py 605-606: a non-streaming error object returned by run_thread
ErrorResponse == MkChunk("status", "error", FALSE, "none", "none", NoText, "response")

\* a status-type chunk that describes how the run ended
IsOutcomeChunk(c) == c.type = "status" /\ c.status \in {"error", "stopped", "failed", "completed"}

VARIABLES
    max_iterations,       \* AgentConfig.max_iterations
    iteration_count,      \* run.py 540
    continue_execution,   \* run.py 541
    pc,                   \* position of the generator
    last_tool_call,       \* run.py 609
    agent_should_terminate, \* run.py 610
    error_detected,       \* run.py 611
    produced,             \* chunks taken from the current turn's stream, in order
    forwarded,            \* chunks of the current turn's stream yielded to the consumer
    invocations,          \* number of run_thread calls
    outcome_chunks,       \* number of outcome-describing status chunks yielded
    exit_reason,          \* how the generator left the loop
    yielded,              \* the generator is suspended at a yield
    stopFlag,             \* a STOP signal has been delivered to the executing instance
    latest_type,          \* type of the most recently persisted message of the thread
    scenario,             \* first turn's stream was exactly one assistant chunk ending in </ask>
    error_chunk_seen,     \* an error-status chunk was taken from a stream
    resume_seen,          \* an iteration started with an assistant message as latest message
    runState,             \* Created, Setup, Iterating, Completed, Stopped, Failed, SetupError
    admission_checks,     \* admission checks performed in the current iteration, with outcome
    response_kind,        \* what the last run_thread call returned
    loop_emitted,         \* chunks made by the loop itself (not taken from a stream), as yielded
    record,               \* durable record of the run: status, error, responses
    lists,                \* Redis lists, by key
    live_keys,            \* Redis liveness keys
    appended,             \* number of chunks the executing instance has appended
    stop_pc,              \* position of each stop_agent_run invocation
    error_message,        \* utils.py 41: argument of each invocation
    all_responses,        \* utils.py 47
    update_success,       \* utils.py 55
    instance_keys,        \* utils.py 70: keys still to be visited by the for loop
    trace,                \* what each invocation has done so far, in order
    faults,               \* number of Redis calls that have raised
    threads,              \* utils.py 113: the threads of each account
    running,              \* runs with status running started within the last 24 hours, per
                          \* account and thread
    stale,                \* runs with status running started more than 24 hours ago, per account
    cache,                \* admission cache, by account: no entry, or one decision
    last_check,           \* the latest call of check_agent_run_limit: its account, the way it
                          \* took, the running runs of the last 24 hours at its runs query,
                          \* whether the store was at rest during the call, what it returned
    denied_before,        \* the call before it, for the same account, found the account at its cap
    calls,                \* the calls of check_agent_run_limit in flight, by caller: the await
                          \* reached, the account, the threads found, the runs that passed
                          \* their 24 hours after the cutoff was fixed, the runs counted
    config_kind,          \* shape of AgentConfig.agent_config
    raw_tools,            \* agent_config['agentpress_tools'] when it is a dict: pairs of name and value
    is_suna_default,      \* agent_config.get('is_suna_default', False)
    agent_id,             \* run.py 448-450: agent_config has an agent id
    rapid_api_key,        \* config.RAPID_API_KEY is set
    tools_pc,             \* "config" before setup_tools, "registered" after it until
                          \* setup_mcp_tools has returned, "mcp_done" after that
    mcp_kind,             \* run.py 166-243: no MCP configured, or the wrapper initializes, or it
                          \* raises, or a custom MCP is malformed
    mcp_schemas,          \* run.py 232: what get_schemas() returns when it is reached, pairs of
                          \* method name and number of schemas
    disabled_tools,       \* run.py 453
    catalog,              \* names of the tools registered
    subscribed,           \* control channels the executing instance listens on
    model_name,           \* AgentConfig.model_name, a sequence of glyphs
    max_tokens,           \* run.py 575: the ceiling last computed, <<>> for None
    token_calls,          \* number of iterations that have computed the ceiling
    raw_chunk,            \* a status chunk as the completion engine hands it over
    classified            \* run.py 622-641 has run on raw_chunk

loopVars == <<max_iterations, iteration_count, continue_execution, pc, last_tool_call,
              agent_should_terminate, error_detected, produced, forwarded, invocations,
              outcome_chunks, exit_reason, yielded, stopFlag, latest_type,
              scenario, error_chunk_seen, resume_seen, runState, admission_checks,
              response_kind, loop_emitted>>

stopVars == <<record, lists, live_keys, appended, stop_pc, error_message, all_responses,
              update_success, instance_keys, trace, faults>>

admitVars == <<threads, running, stale, cache, last_check, denied_before, calls>>

toolVars == <<config_kind, raw_tools, is_suna_default, agent_id, rapid_api_key, tools_pc,
              mcp_kind, mcp_schemas, disabled_tools, catalog>>

workerVars == <<subscribed>>

tokenVars == <<model_name, max_tokens, token_calls>>

classifyVars == <<raw_chunk, classified>>

otherVars == <<admitVars, toolVars, workerVars, tokenVars, classifyVars>>

\* the stop protocol's variables, the liveness keys apart
stopVarsButKeys == <<record, lists, appended, stop_pc, error_message, all_responses,
                     update_success, instance_keys, trace, faults>>

vars == <<loopVars, stopVars, otherVars>>

TerminalStates == {"Completed", "Stopped", "Failed"}

Runs == {"r1", "r2"}
Instances == {"i1", "i2"}
Stoppers == {"s1", "s2"}

\* the run that is stopped, and executed by the worker
TargetRun == "r1"

\* None, the empty string, a message
NoneValue == "<None>"
ErrorMessages == {NoneValue, "", "boom"}

\* utils.py 13, 46: key of the output buffer of a run
ResponseListKey(r) == <<"agent_run", r, "responses">>

\* utils.py 62: global control channel of a run
GlobalChannel(r) == <<"agent_run", r, "control">>

\* utils.py 77: control channel of a run on one instance
InstanceChannel(r, i) == <<"agent_run", r, "control", i>>

\* liveness key of instance i executing run r, split at ":"
LivenessKey(i, r) == <<"active_run", i, r>>

AllLivenessKeys == { LivenessKey(i, r) : i \in Instances, r \in Runs }

\* the liveness keys found when the stop protocol starts
InitialKeySets ==
    { {},
      {LivenessKey("i1", "r1")},
      {LivenessKey("i2", "r2")},
      {LivenessKey("i1", "r1"), LivenessKey("i2", "r1"), LivenessKey("i1", "r2")} }

Accounts == {"a1", "a2"}

\* the threads an account may have, in the order of their creation
Threads == {"t1", "t2"}

\* the callers of check_agent_run_limit, each with at most one call in flight
Callers == {"c1", "c2"}

\* utils.py 116-120, 146-150: the dictionary returned (the list of thread ids left out)
Result(can_start, running_count) ==
    [can_start |-> can_start, running_count |-> running_count]

\* nothing has been asked of the admission controller
NoCheck ==
    [account |-> "none", path |-> "none", recent |-> 0, quiet |-> TRUE,
     result |-> Result(TRUE, 0)]

\* a call that has not been made, or has returned
IdleCall ==
    [pc |-> "idle", account |-> "none", thread_ids |-> {}, aged |-> 0, quiet |-> TRUE,
     count |-> 0, recent |-> 0]

\* the admission controller at rest: an empty store, an empty cache
AdmitIdle ==
    /\ threads = [a \in Accounts |-> {}]
    /\ running = [a \in Accounts |-> [t \in Threads |-> 0]]
    /\ stale = [a \in Accounts |-> 0]
    /\ cache = [a \in Accounts |-> <<>>]
    /\ last_check = NoCheck
    /\ denied_before = FALSE
    /\ calls = [c \in Callers |-> IdleCall]

\* no agent configuration, setup_tools not yet called
ToolIdle ==
    /\ config_kind = "none"
    /\ raw_tools = {}
    /\ is_suna_default = FALSE
    /\ agent_id = FALSE
    /\ rapid_api_key = FALSE
    /\ tools_pc = "config"
    /\ mcp_kind = "none"
    /\ mcp_schemas = {}
    /\ disabled_tools = {}
    /\ catalog = {}

\* everything outside the run loop and the stop protocol at rest
\* no model name looked at yet
TokenIdle ==
    /\ model_name = <<>>
    /\ max_tokens = <<>>
    /\ token_calls = 0

\* the form a field of a chunk arrives in: an object, its JSON text, text that
\* does not parse, or a value that is neither
FieldForms == {"object", "json", "malformed", "other"}

\* status chunks as they arrive, metadata and content not yet decoded
RawStatusChunks ==
    [status : {"tool_completed", "error"},
     metadata_form : FieldForms,
     flag : BOOLEAN,
     content_form : FieldForms,
     function_name : {"none", "web_search"},
     xml_tag_name : {"none", "complete"}]

NoRawChunk == [status |-> "none"]

\* no status chunk under classification
ClassifyIdle ==
    /\ raw_chunk = NoRawChunk
    /\ classified = FALSE

OthersIdle == AdmitIdle /\ ToolIdle /\ subscribed = {} /\ TokenIdle /\ ClassifyIdle

\* the stop protocol at rest
StopIdle ==
    /\ record = [status |-> "running", error |-> NoneValue, responses |-> <<>>]
    /\ stop_pc = [s \in Stoppers |-> "idle"]
    /\ error_message = [s \in Stoppers |-> NoneValue]
    /\ all_responses = [s \in Stoppers |-> <<>>]
    /\ update_success = [s \in Stoppers |-> FALSE]
    /\ instance_keys = [s \in Stoppers |-> {}]
    /\ trace = [s \in Stoppers |-> <<>>]

InitLoop ==
    /\ max_iterations \in 0..MaxIter
    /\ iteration_count = 0
    /\ continue_execution = TRUE
    /\ pc = "setup"
    /\ last_tool_call = "none"
    /\ agent_should_terminate = FALSE
    /\ error_detected = FALSE
    /\ produced = <<>>
    /\ forwarded = <<>>
    /\ invocations = 0
    /\ outcome_chunks = 0
    /\ exit_reason = "none"
    /\ yielded = FALSE
    /\ stopFlag = FALSE
    /\ latest_type \in {"none", "user", "tool", "assistant"}
    /\ scenario = FALSE
    /\ error_chunk_seen = FALSE
    /\ resume_seen = FALSE
    /\ runState = "Created"
    /\ admission_checks = {}
    /\ response_kind = "none"
    /\ loop_emitted = <<>>

Init ==
    /\ InitLoop
    /\ OthersIdle
    /\ StopIdle
    /\ lists = [k \in { ResponseListKey(r) : r \in Runs } |-> <<>>]
    /\ appended = 0
    /\ faults = 0
    /\ live_keys = {}

(***************************************************************************)
(* Tool registration: AgentRunner.setup_tools (run.py 444-456) turns the   *)
(* agent configuration into a list of disabled tools                       *)
(* (_get_disabled_tools_from_config, 458-508) and hands it to              *)
(* ToolManager.register_all_tools (64-158).                                *)
(***************************************************************************)

\* the most entries a tool-enablement map holds, the maps of PairedMaps apart
MaxEntries == 1

\* run.py 94-98: registered always
CoreTools == {"expand_message_tool", "message_tool", "task_list_tool"}

\* run.py 102-116: registered unless disabled
SandboxTools ==
    {"sb_shell_tool", "sb_files_tool", "sb_deploy_tool", "sb_expose_tool", "web_search_tool",
     "sb_vision_tool", "sb_image_edit_tool", "sb_presentation_outline_tool",
     "sb_presentation_tool", "sb_sheets_tool", "sb_web_dev_tool", "sb_upload_file_tool"}

\* run.py 141-147: registered unless disabled, when there is an agent id
AgentBuilderTools ==
    {"agent_config_tool", "mcp_search_tool", "credential_profile_tool", "workflow_tool",
     "trigger_tool"}

\* every tool whose registration looks at the list of disabled tools
ConditionalTools ==
    SandboxTools \cup AgentBuilderTools \cup {"data_providers_tool", "browser_tool"}

\* run.py 490-496: all_tools
AllTools ==
    {"sb_shell_tool", "sb_files_tool", "sb_deploy_tool", "sb_expose_tool", "web_search_tool",
     "sb_vision_tool", "sb_presentation_tool", "sb_image_edit_tool", "sb_sheets_tool",
     "sb_web_dev_tool", "data_providers_tool", "browser_tool", "agent_config_tool",
     "mcp_search_tool", "credential_profile_tool", "workflow_tool", "trigger_tool"}

\* names a tool-enablement map may mention
ConfigNames == ConditionalTools \cup {"message_tool"}

\* values a tool-enablement map may give: a boolean, a dict with or without the
\* key 'enabled' (dict_null: 'enabled' is None), something else
ConfigValues ==
    {"true", "false", "dict_enabled", "dict_disabled", "dict_null", "dict_empty", "other"}

\* tool-enablement maps with at most k entries
RECURSIVE ToolMaps(_)
ToolMaps(k) ==
    IF k = 0 THEN {{}}
    ELSE ToolMaps(k - 1) \cup
         { m \cup {<<n, v>>} :
             m \in { x \in ToolMaps(k - 1) : Cardinality(x) = k - 1 },
             n \in ConfigNames, v \in ConfigValues }

\* the maps that name both presentation tools
PairedMaps ==
    { {<<"sb_presentation_tool", v>>, <<"sb_presentation_outline_tool", w>>} :
        v \in ConfigValues, w \in ConfigValues }

\* a map gives one value to a name
IsMap(m) == \A p \in m, q \in m : p[1] = q[1] => p = q

ToolConfigDefaultOff(m, tool_name) ==
    IF \E p \in m : p[1] = tool_name
    THEN (CHOOSE p \in m : p[1] = tool_name)[2]
    ELSE "false"

\* run.py 476: raw_tools.get(tool_name, True)
ToolConfig(m, tool_name) ==
    IF \E p \in m : p[1] = tool_name
    THEN (CHOOSE p \in m : p[1] = tool_name)[2]
    ELSE "true"

\* run.py 474-485, 500: is_tool_enabled, as `not is_tool_enabled(...)` reads it: the
\* value of 'enabled' is handed back as it is, and None counts as not enabled
IsToolEnabled(m, tool_name) ==
    ToolConfig(m, tool_name) \notin {"false", "dict_disabled", "dict_null"}

\* run.py 458-508: _get_disabled_tools_from_config
DisabledTools(kind, m, suna_default) ==
    IF kind # "dict" THEN {}
    ELSE IF suna_default /\ m = {} THEN {}
    ELSE LET listed == { t \in AllTools : ~IsToolEnabled(m, t) }
         IN  IF "sb_presentation_tool" \in listed
             THEN listed \cup {"sb_presentation_outline_tool"}
             ELSE listed

\* run.py 65-92: the names register_all_tools registers
RegisteredTools(has_agent_id, has_rapid_api_key, disabled) ==
    CoreTools
    \cup (SandboxTools \ disabled)
    \cup (IF has_rapid_api_key THEN {"data_providers_tool"} \ disabled ELSE {})
    \cup (IF has_agent_id THEN AgentBuilderTools \ disabled ELSE {})
    \cup ({"browser_tool"} \ disabled)

\* method names an MCP wrapper may report
McpToolNames == {"mcp_exa_search", "custom_x"}

\* run.py 232: what get_schemas() can hold: mcp_exa_search with one schema or not
\* at all, custom_x with one schema, with an empty schema list, or not at all
McpSchemaSets ==
    { a \cup b : a \in {{}, {<<"mcp_exa_search", 1>>}},
                 b \in {{}, {<<"custom_x", 0>>}, {<<"custom_x", 1>>}} }

\* run.py 166-243: agent_config lists no MCP, or the wrapper initializes, or
\* initialize_and_register_tools raises, or a custom MCP lacks the key 'name' or
\* 'config' that 199, 202 and 214-216 read
McpKinds == {"none", "ok", "raises", "malformed"}

\* run.py 226-243: the method names written to the registry, one write per schema
McpRegistered(kind, schemas) ==
    IF kind = "ok" THEN { p[1] : p \in { q \in schemas : q[2] > 0 } } ELSE {}

(***************************************************************************)
(* AgentRunner.run: the generator.  Before the loop (run.py 530-552) it is  *)
(* one step from each await at which the tool registry or the position     *)
(* has changed to the next: the registry is written by setup_tools, and    *)
(* again after the MCP wrapper has initialized.                            *)
(***************************************************************************)
Running == runState = "Iterating" /\ ~yielded

\* a yield suspends the generator and hands one chunk to the consumer
Yield(c) ==
    /\ yielded' = TRUE
    /\ outcome_chunks' = outcome_chunks + (IF IsOutcomeChunk(c) THEN 1 ELSE 0)
    /\ loop_emitted' = (IF c.origin = "stream" THEN loop_emitted ELSE Append(loop_emitted, c))

ResetTurnLocals ==
    /\ last_tool_call' = "none"
    /\ agent_should_terminate' = FALSE
    /\ error_detected' = FALSE
    /\ produced' = <<>>
    /\ forwarded' = <<>>

\* what the setup phase leaves alone among the tool variables
toolInputs == <<config_kind, raw_tools, is_suna_default, agent_id, rapid_api_key, mcp_kind,
                mcp_schemas>>

\* what the setup phase leaves alone among the variables of the loop
setupFrame == <<max_iterations, iteration_count, continue_execution, last_tool_call,
                agent_should_terminate, error_detected, produced, forwarded,
                invocations, outcome_chunks, yielded, stopFlag, latest_type,
                scenario, error_chunk_seen, resume_seen, admission_checks,
                response_kind, loop_emitted>>

\* run.py 531, 444-456: setup_tools writes the built-in tools to the registry
SetupTools ==
    /\ disabled_tools' = DisabledTools(config_kind, raw_tools, is_suna_default)
    /\ catalog' = RegisteredTools(agent_id, rapid_api_key,
                                  DisabledTools(config_kind, raw_tools, is_suna_default))

\* run.py 226-243: register_mcp_tools, once initialize_and_register_tools has
\* returned or raised, writes the MCP tools to the registry
RegisterMcpTools ==
    /\ catalog' = catalog \cup McpRegistered(mcp_kind, mcp_schemas)
    /\ tools_pc' = "mcp_done"
    /\ UNCHANGED disabled_tools

\* an exception leaves run() before the loop
RaiseBeforeLoop ==
    /\ pc' = "raised"
    /\ exit_reason' = "setup_error"
    /\ UNCHANGED runState

\* run() goes on, up to its next await before the loop
GoOnBeforeLoop(next) ==
    /\ pc' = next
    /\ UNCHANGED <<exit_reason, runState>>

\* run.py 534-538, 262-284: build_system_prompt up to its first await.  It calls
\* agentpress_tools.get, which raises when agent_config['agentpress_tools'] is not a
\* dict; with an agent id it awaits the knowledge-base rpc; otherwise it returns
\* and run() awaits the query of the latest user message (543)
BuildSystemPrompt ==
    IF config_kind = "not_a_dict" THEN RaiseBeforeLoop
    ELSE IF agent_id THEN GoOnBeforeLoop("kb_rpc")
    ELSE GoOnBeforeLoop("user_message")

SetupGoesOn ==
    /\ pc = "setup" /\ runState = "Setup"
    /\ \E account_resolved \in BOOLEAN, project_found \in BOOLEAN :
         IF account_resolved /\ project_found
         THEN /\ SetupTools
              /\ IF mcp_kind = "none"
                 THEN tools_pc' = "mcp_done" /\ BuildSystemPrompt
                 ELSE IF mcp_kind = "malformed"
                 THEN /\ tools_pc' = "registered"
                      /\ (RaiseBeforeLoop \/ GoOnBeforeLoop("mcp_init"))
                 ELSE tools_pc' = "registered" /\ GoOnBeforeLoop("mcp_init")
         ELSE /\ SetupTools
              /\ tools_pc' = "mcp_done"
              /\ pc' = "user_message"
              /\ exit_reason' = "setup_error"
              /\ UNCHANGED runState
    /\ UNCHANGED <<setupFrame, stopVars, admitVars, workerVars, tokenVars, classifyVars,
                   toolInputs>>

\* run.py 530-532: setup raises when the account or the project is not found;
\* otherwise setup_tools writes the built-in tools and, without a suspension,
\* setup_mcp_tools either finds no MCP configured and returns, whereupon the system
\* prompt is built, or awaits the initialization of the MCP wrapper (229).  A
\* malformed custom MCP raises KeyError (199, 202, 214-216) outside every try, right
\* away or after the await of an earlier pipedream entry (187): the exception leaves
\* run() with the built-in tools registered
Setup ==
    /\ pc = "setup" /\ runState = "Setup"
    /\ \E account_resolved \in BOOLEAN, project_found \in BOOLEAN :
         IF account_resolved /\ project_found
         THEN /\ SetupTools
              /\ IF mcp_kind = "none"
                 THEN tools_pc' = "mcp_done" /\ BuildSystemPrompt
                 ELSE IF mcp_kind = "malformed"
                 THEN /\ tools_pc' = "registered"
                      /\ (RaiseBeforeLoop \/ GoOnBeforeLoop("mcp_init"))
                 ELSE tools_pc' = "registered" /\ GoOnBeforeLoop("mcp_init")
         ELSE /\ RaiseBeforeLoop
              /\ UNCHANGED <<tools_pc, disabled_tools, catalog>>
    /\ UNCHANGED <<setupFrame, stopVars, admitVars, workerVars, tokenVars, classifyVars,
                   toolInputs>>

\* run.py 187-243, 534: the initialization of the MCP wrapper has returned or
\* raised; the MCP tools are written and the system prompt is built.  With a
\* malformed custom MCP the await that has returned is the one of 187, and the
\* KeyError leaves run()
SetupMcpTools ==
    /\ pc = "mcp_init" /\ runState = "Setup"
    /\ IF mcp_kind = "malformed"
       THEN RaiseBeforeLoop /\ UNCHANGED <<tools_pc, disabled_tools, catalog>>
       ELSE RegisterMcpTools /\ BuildSystemPrompt
    /\ UNCHANGED <<setupFrame, stopVars, admitVars, workerVars, tokenVars, classifyVars,
                   toolInputs>>

\* run.py 284-309: the knowledge-base rpc has returned or raised (the exception is
\* caught at 307); the rest of the system prompt is built and run() awaits the query
\* of the latest user message
KnowledgeBaseContext ==
    /\ pc = "kb_rpc" /\ runState = "Setup"
    /\ GoOnBeforeLoop("user_message")
    /\ UNCHANGED <<setupFrame, stopVars, admitVars, workerVars, tokenVars, classifyVars,
                   toolVars>>

\* run.py 543-554: the query of the latest user message returns or raises, and its
\* content is decoded (547), which raises when it is not JSON; then the loop begins
LatestUserMessage ==
    /\ pc = "user_message" /\ runState = "Setup"
    /\ \E ok \in BOOLEAN :
         IF ok
         THEN /\ pc' = "loop"
              /\ runState' = "Iterating"
              /\ UNCHANGED exit_reason
         ELSE RaiseBeforeLoop
    /\ UNCHANGED <<setupFrame, stopVars, admitVars, workerVars, tokenVars, classifyVars,
                   toolVars>>

LoopConditionOffByOne == continue_execution /\ iteration_count <= max_iterations

LoopConditionNoCap == continue_execution

\* run.py 554: the condition of the while loop
LoopCondition == continue_execution /\ iteration_count < max_iterations

\* run.py 554-555: test the loop condition, start the next iteration or leave the loop
LoopTest ==
    /\ pc = "loop" /\ Running
    /\ UNCHANGED <<stopVars, otherVars>>
    /\ IF LoopCondition
       THEN /\ iteration_count' = iteration_count + 1
            /\ pc' = "billing"
            /\ resume_seen' = (resume_seen \/ latest_type = "assistant")
            /\ exit_reason' = exit_reason
            /\ admission_checks' = {}
       ELSE /\ pc' = "done"
            /\ exit_reason' = (IF continue_execution THEN "max_iterations" ELSE "terminated")
            /\ UNCHANGED <<iteration_count, resume_seen, admission_checks>>
    /\ UNCHANGED <<max_iterations, continue_execution, last_tool_call,
                   agent_should_terminate, error_detected, produced, forwarded,
                   invocations, outcome_chunks, yielded, stopFlag, latest_type,
                   scenario, error_chunk_seen, runState>>
    /\ UNCHANGED <<response_kind, loop_emitted>>

\* run.py 557: check_billing_status answers that the run may go on, or that it may
\* not, or raises
BillingOutcomes == {"allowed", "denied", "raises"}

BillingCheckGoesOn ==
    /\ pc = "billing" /\ Running
    /\ UNCHANGED <<stopVars, otherVars>>
    /\ \E outcome \in BillingOutcomes :
         /\ admission_checks' = admission_checks \cup {[check |-> "billing", outcome |-> outcome]}
         /\ IF outcome = "denied"
            THEN Yield(BillingDeniedChunk)
            ELSE UNCHANGED <<yielded, outcome_chunks, loop_emitted>>
         /\ pc' = (IF outcome = "raises" THEN "raised" ELSE "latest")
         /\ exit_reason' = (IF outcome = "denied" THEN "billing_denied"
                            ELSE IF outcome = "raises" THEN "billing_exception"
                            ELSE exit_reason)
    /\ UNCHANGED <<max_iterations, iteration_count, continue_execution, last_tool_call,
                   agent_should_terminate, error_detected, produced, forwarded,
                   invocations, stopFlag, latest_type, scenario, error_chunk_seen,
                   resume_seen, runState, response_kind>>

\* run.py 557-565: billing check; on denial one status chunk is yielded, then break.
\* The call is outside every try: when it raises, the exception leaves run()
BillingCheck ==
    /\ pc = "billing" /\ Running
    /\ UNCHANGED <<stopVars, otherVars>>
    /\ \E outcome \in BillingOutcomes :
         /\ admission_checks' = admission_checks \cup {[check |-> "billing", outcome |-> outcome]}
         /\ IF outcome = "allowed"
            THEN /\ pc' = "latest"
                 /\ UNCHANGED <<yielded, outcome_chunks, exit_reason, loop_emitted>>
            ELSE IF outcome = "denied"
            THEN /\ Yield(BillingDeniedChunk)
                 /\ pc' = "done"
                 /\ exit_reason' = "billing_denied"
            ELSE /\ pc' = "raised"
                 /\ exit_reason' = "billing_exception"
                 /\ UNCHANGED <<yielded, outcome_chunks, loop_emitted>>
    /\ UNCHANGED <<max_iterations, iteration_count, continue_execution, last_tool_call,
                   agent_should_terminate, error_detected, produced, forwarded,
                   invocations, stopFlag, latest_type, scenario, error_chunk_seen,
                   resume_seen, runState, response_kind>>

LatestMessageIgnored ==
    /\ pc = "latest" /\ Running
    /\ UNCHANGED <<stopVars, otherVars>>
    /\ pc' = "temporary"
    /\ UNCHANGED <<max_iterations, iteration_count, last_tool_call, agent_should_terminate,
                   error_detected, produced, forwarded, invocations, outcome_chunks,
                   yielded, stopFlag, latest_type, scenario, error_chunk_seen,
                   resume_seen, runState, continue_execution, exit_reason>>
    /\ UNCHANGED <<admission_checks, response_kind, loop_emitted>>

\* run.py 567-574: the query of the latest message returns or raises.  It is outside
\* every try: when it raises, the exception leaves run().  When the latest message is
\* an assistant message the loop is left (resume safety); otherwise run() awaits the
\* temporary message (574)
LatestMessage ==
    /\ pc = "latest" /\ Running
    /\ UNCHANGED <<stopVars, otherVars>>
    /\ \E returns \in BOOLEAN :
         IF ~returns
         THEN /\ pc' = "raised"
              /\ exit_reason' = "query_exception"
              /\ UNCHANGED continue_execution
         ELSE IF latest_type = "assistant"
         THEN /\ continue_execution' = FALSE
              /\ pc' = "done"
              /\ exit_reason' = "resume"
         ELSE /\ pc' = "temporary"
              /\ UNCHANGED <<continue_execution, exit_reason>>
    /\ UNCHANGED <<max_iterations, iteration_count, last_tool_call, agent_should_terminate,
                   error_detected, produced, forwarded, invocations, outcome_chunks,
                   yielded, stopFlag, latest_type, scenario, error_chunk_seen,
                   resume_seen, runState>>
    /\ UNCHANGED <<admission_checks, response_kind, loop_emitted>>

\* run.py 574-579: build_temporary_message returns or raises.  It is outside every
\* try: when it raises, the exception leaves run(); otherwise run_thread is awaited
TemporaryMessage ==
    /\ pc = "temporary" /\ Running
    /\ UNCHANGED <<stopVars, otherVars>>
    /\ \E returns \in BOOLEAN :
         IF returns
         THEN pc' = "invoke" /\ UNCHANGED exit_reason
         ELSE pc' = "raised" /\ exit_reason' = "temporary_exception"
    /\ UNCHANGED <<max_iterations, iteration_count, last_tool_call, agent_should_terminate,
                   error_detected, produced, forwarded, invocations, outcome_chunks,
                   yielded, stopFlag, latest_type, scenario, error_chunk_seen,
                   resume_seen, runState, continue_execution>>
    /\ UNCHANGED <<admission_checks, response_kind, loop_emitted>>

\* run.py 579-603, 609-615: run_thread returns an async stream
RunThreadStream ==
    /\ pc = "invoke" /\ Running
    /\ UNCHANGED <<stopVars, otherVars>>
    /\ invocations' = invocations + 1
    /\ ResetTurnLocals
    /\ pc' = "stream"
    /\ UNCHANGED <<max_iterations, iteration_count, continue_execution, outcome_chunks,
                   exit_reason, yielded, stopFlag, latest_type, scenario,
                   error_chunk_seen, resume_seen, runState>>
    /\ response_kind' = "stream"
    /\ UNCHANGED <<admission_checks, loop_emitted>>

\* run.py 605-607: run_thread returns an error object, which is yielded, then break
RunThreadErrorResponse ==
    /\ pc = "invoke" /\ Running
    /\ UNCHANGED <<stopVars, otherVars>>
    /\ invocations' = invocations + 1
    /\ Yield(ErrorResponse)
    /\ pc' = "done"
    /\ exit_reason' = "error_response"
    /\ UNCHANGED <<max_iterations, iteration_count, continue_execution, last_tool_call,
                   agent_should_terminate, error_detected, stopFlag,
                   latest_type, scenario, error_chunk_seen, resume_seen, runState>>
    /\ produced' = <<>> /\ forwarded' = <<>>
    /\ response_kind' = "error_object"
    /\ UNCHANGED admission_checks

RunThreadNotIterableNoError ==
    /\ pc = "invoke" /\ Running
    /\ UNCHANGED <<stopVars, otherVars>>
    /\ invocations' = invocations + 1
    /\ last_tool_call' = "none"
    /\ agent_should_terminate' = FALSE
    /\ error_detected' = FALSE
    /\ produced' = <<>>
    /\ forwarded' = <<>>
    /\ pc' = "verdict"
    /\ UNCHANGED <<max_iterations, iteration_count, continue_execution, outcome_chunks,
                   exit_reason, yielded, stopFlag, latest_type, scenario,
                   error_chunk_seen, resume_seen, runState>>
    /\ response_kind' = "not_iterable"
    /\ UNCHANGED <<admission_checks, loop_emitted>>

\* run.py 609-615, 670-671: run_thread returns something that is not an async stream
RunThreadNotIterable ==
    /\ pc = "invoke" /\ Running
    /\ UNCHANGED <<stopVars, otherVars>>
    /\ invocations' = invocations + 1
    /\ last_tool_call' = "none"
    /\ agent_should_terminate' = FALSE
    /\ error_detected' = TRUE
    /\ produced' = <<>>
    /\ forwarded' = <<>>
    /\ pc' = "verdict"
    /\ UNCHANGED <<max_iterations, iteration_count, continue_execution, outcome_chunks,
                   exit_reason, yielded, stopFlag, latest_type, scenario,
                   error_chunk_seen, resume_seen, runState>>
    /\ response_kind' = "not_iterable"
    /\ UNCHANGED <<admission_checks, loop_emitted>>

\* run.py 694-701: run_thread raises, one error chunk is yielded, then break
RunThreadRaises ==
    /\ pc = "invoke" /\ Running
    /\ UNCHANGED <<stopVars, otherVars>>
    /\ invocations' = invocations + 1
    /\ Yield(LoopErrorChunk)
    /\ pc' = "done"
    /\ exit_reason' = "thread_exception"
    /\ UNCHANGED <<max_iterations, iteration_count, continue_execution, last_tool_call,
                   agent_should_terminate, error_detected, stopFlag,
                   latest_type, scenario, error_chunk_seen, resume_seen, runState>>
    /\ produced' = <<>> /\ forwarded' = <<>>
    /\ response_kind' = "raised"
    /\ UNCHANGED admission_checks

\* run.py 616: the next chunk is taken from the stream
NextChunk ==
    /\ pc = "stream" /\ Running
    /\ UNCHANGED <<stopVars, otherVars>>
    /\ Len(produced) < MaxStream
    /\ \E c \in StreamChunks : produced' = Append(produced, c)
    /\ pc' = "chunk"
    /\ UNCHANGED <<max_iterations, iteration_count, continue_execution, last_tool_call,
                   agent_should_terminate, error_detected, forwarded, invocations,
                   outcome_chunks, exit_reason, yielded, stopFlag, latest_type, scenario,
                   error_chunk_seen, resume_seen, runState>>
    /\ UNCHANGED <<admission_checks, response_kind, loop_emitted>>

\* the chunk taken last from the stream
CurrentChunk == produced[Len(produced)]

IsErrorChunk(c) == c.type = "status" /\ c.status = "error"

\* run.py 617-618: error_detected after chunk c
ClassifyError(c, e) == e \/ IsErrorChunk(c)

\* run.py 622-629: agent_should_terminate after chunk c
ClassifyTerminate(c, t) ==
    IF ~IsErrorChunk(c) /\ c.type = "status" /\ c.terminate THEN TRUE ELSE t

ClassifyLastToolTagFirst(c, l) ==
    IF IsErrorChunk(c) THEN l
    ELSE IF c.type = "status" /\ c.terminate
         THEN (IF c.xml_tag_name # "none" THEN c.xml_tag_name
               ELSE IF c.function_name # "none" THEN c.function_name
               ELSE l)
    ELSE IF c.type = "assistant" /\ SentinelTool(c.text) # "none"
         THEN SentinelTool(c.text)
    ELSE l

\* run.py 622-662: last_tool_call after chunk c
ClassifyLastTool(c, l) ==
    IF IsErrorChunk(c) THEN l
    ELSE IF c.type = "status" /\ c.terminate
         THEN (IF c.function_name # "none" THEN c.function_name
               ELSE IF c.xml_tag_name # "none" THEN c.xml_tag_name
               ELSE l)
    ELSE IF c.type = "assistant" /\ SentinelTool(c.text) # "none"
         THEN SentinelTool(c.text)
    ELSE l

\* run.py 616-669, 683-692: a dict chunk is classified and yielded unchanged.  A chunk
\* that is not a dict passes the test of 617 (isinstance) and raises at 622
\* (chunk.get), inside the try of 614: it is not yielded, the handler of 683 yields
\* one error chunk and breaks
HandleChunk ==
    /\ pc = "chunk" /\ Running
    /\ UNCHANGED <<stopVars, otherVars>>
    /\ IF CurrentChunk = NonDictChunk
       THEN /\ Yield(LoopErrorChunk)
            /\ pc' = "done"
            /\ exit_reason' = "stream_exception"
            /\ UNCHANGED <<error_detected, agent_should_terminate, last_tool_call,
                           error_chunk_seen, forwarded>>
       ELSE /\ error_detected' = ClassifyError(CurrentChunk, error_detected)
            /\ agent_should_terminate' = ClassifyTerminate(CurrentChunk, agent_should_terminate)
            /\ last_tool_call' = ClassifyLastTool(CurrentChunk, last_tool_call)
            /\ error_chunk_seen' = (error_chunk_seen \/ IsErrorChunk(CurrentChunk))
            /\ forwarded' = Append(forwarded, CurrentChunk)
            /\ Yield(CurrentChunk)
            /\ pc' = "stream"
            /\ UNCHANGED exit_reason
    /\ UNCHANGED <<max_iterations, iteration_count, continue_execution, produced,
                   invocations, stopFlag, latest_type, scenario,
                   resume_seen, runState>>
    /\ UNCHANGED <<admission_checks, response_kind>>

\* the first turn's stream was exactly one assistant chunk whose text ends in </ask>
AskScenarioStream ==
    /\ invocations = 1
    /\ Len(produced) = 1
    /\ produced[1].type = "assistant"
    /\ EndsWith(produced[1].text, AskTag)

\* run.py 616: the stream is exhausted; the turn has persisted its messages
StreamEnd ==
    /\ pc = "stream" /\ Running
    /\ UNCHANGED <<stopVars, otherVars>>
    /\ pc' = "verdict"
    /\ latest_type' \in {"assistant", "tool"}
    /\ scenario' = (scenario \/ AskScenarioStream)
    /\ UNCHANGED <<max_iterations, iteration_count, continue_execution, last_tool_call,
                   agent_should_terminate, error_detected, produced, forwarded,
                   invocations, outcome_chunks, exit_reason, yielded, stopFlag,
                   error_chunk_seen, resume_seen, runState>>
    /\ UNCHANGED <<admission_checks, response_kind, loop_emitted>>

StreamRaisesLoopsOn ==
    /\ pc = "stream" /\ Running
    /\ UNCHANGED <<stopVars, otherVars>>
    /\ Yield(LoopErrorChunk)
    /\ pc' = "loop"
    /\ exit_reason' = "stream_exception"
    /\ UNCHANGED <<max_iterations, iteration_count, continue_execution, last_tool_call,
                   agent_should_terminate, error_detected, produced, forwarded,
                   invocations, stopFlag, latest_type, scenario, error_chunk_seen,
                   resume_seen, runState>>
    /\ UNCHANGED <<admission_checks, response_kind>>

\* run.py 683-692: an exception while consuming the stream, one error chunk, then break
StreamRaises ==
    /\ pc = "stream" /\ Running
    /\ UNCHANGED <<stopVars, otherVars>>
    /\ Yield(LoopErrorChunk)
    /\ pc' = "done"
    /\ exit_reason' = "stream_exception"
    /\ UNCHANGED <<max_iterations, iteration_count, continue_execution, last_tool_call,
                   agent_should_terminate, error_detected, produced, forwarded,
                   invocations, stopFlag, latest_type, scenario, error_chunk_seen,
                   resume_seen, runState>>
    /\ UNCHANGED <<admission_checks, response_kind>>

RECURSIVE FullResponse(_)
\* run.py 612, 652: full_response, the assistant text of the turn accumulated
\* chunk by chunk (assigned, never read)
FullResponse(chunks) ==
    IF chunks = <<>> THEN <<>>
    ELSE FullResponse(SubSeq(chunks, 1, Len(chunks) - 1))
            \o (IF chunks[Len(chunks)].type = "assistant" /\ ~IsErrorChunk(chunks[Len(chunks)])
                THEN chunks[Len(chunks)].text ELSE <<>>)

\* run.py 678: the termination verdict of the turn
TerminationDetected == agent_should_terminate \/ last_tool_call \in SentinelNames

VerdictIgnoresError ==
    /\ pc = "verdict" /\ Running
    /\ UNCHANGED <<stopVars, otherVars>>
    /\ continue_execution' = (IF TerminationDetected THEN FALSE ELSE continue_execution)
    /\ pc' = "loop"
    /\ UNCHANGED <<max_iterations, iteration_count, last_tool_call, agent_should_terminate,
                   error_detected, produced, forwarded, invocations, outcome_chunks,
                   yielded, stopFlag, latest_type, scenario, error_chunk_seen,
                   resume_seen, runState, exit_reason>>
    /\ UNCHANGED <<admission_checks, response_kind, loop_emitted>>

VerdictTerminationFirst ==
    /\ pc = "verdict" /\ Running
    /\ UNCHANGED <<stopVars, otherVars>>
    /\ IF TerminationDetected
       THEN /\ continue_execution' = FALSE
            /\ pc' = "loop"
            /\ UNCHANGED exit_reason
       ELSE IF error_detected
       THEN /\ pc' = "done"
            /\ exit_reason' = "error_detected"
            /\ UNCHANGED continue_execution
       ELSE /\ pc' = "loop"
            /\ UNCHANGED <<continue_execution, exit_reason>>
    /\ UNCHANGED <<max_iterations, iteration_count, last_tool_call, agent_should_terminate,
                   error_detected, produced, forwarded, invocations, outcome_chunks,
                   yielded, stopFlag, latest_type, scenario, error_chunk_seen,
                   resume_seen, runState>>
    /\ UNCHANGED <<admission_checks, response_kind, loop_emitted>>

\* run.py 673-681: after the stream, break on error, stop iterating on termination
Verdict ==
    /\ pc = "verdict" /\ Running
    /\ UNCHANGED <<stopVars, otherVars>>
    /\ IF error_detected
       THEN /\ pc' = "done"
            /\ exit_reason' = "error_detected"
            /\ UNCHANGED continue_execution
       ELSE /\ continue_execution' = (IF TerminationDetected THEN FALSE ELSE continue_execution)
            /\ pc' = "loop"
            /\ UNCHANGED exit_reason
    /\ UNCHANGED <<max_iterations, iteration_count, last_tool_call, agent_should_terminate,
                   error_detected, produced, forwarded, invocations, outcome_chunks,
                   yielded, stopFlag, latest_type, scenario, error_chunk_seen,
                   resume_seen, runState>>
    /\ UNCHANGED <<admission_checks, response_kind, loop_emitted>>

(***************************************************************************)
(* The consumer of the generator: it owns the control channels and the     *)
(* terminal state of the run.  It can act only while the generator is      *)
(* suspended at a yield, or after the generator has returned.              *)
(***************************************************************************)
genVars == <<max_iterations, iteration_count, continue_execution, last_tool_call,
             agent_should_terminate, error_detected, produced, forwarded, invocations,
             outcome_chunks, exit_reason, latest_type, scenario, error_chunk_seen,
             resume_seen, admission_checks, response_kind, loop_emitted>>

\* the instance that executes the run
ThisInstance == "i1"

\* before it starts the generator, the executing instance registers its liveness
\* key for the run and subscribes to the two control channels
WorkerRegister ==
    /\ runState = "Created"
    /\ runState' = "Setup"
    /\ live_keys' = live_keys \cup {LivenessKey(ThisInstance, TargetRun)}
    /\ subscribed' = {GlobalChannel(TargetRun), InstanceChannel(TargetRun, ThisInstance)}
    /\ UNCHANGED <<genVars, pc, yielded, stopFlag, stopVarsButKeys, admitVars, toolVars, tokenVars, classifyVars>>

\* what the executing instance gives up when its run reaches a terminal state
Unregister ==
    /\ live_keys' = live_keys \ {LivenessKey(ThisInstance, TargetRun)}
    /\ subscribed' = {}
    /\ UNCHANGED <<stopVarsButKeys, admitVars, toolVars, tokenVars, classifyVars>>

\* setup has raised: the run ends without having iterated
ConsumerSetupError ==
    /\ runState = "Setup" /\ pc = "raised"
    /\ runState' = "SetupError"
    /\ Unregister
    /\ UNCHANGED <<genVars, pc, yielded, stopFlag>>

\* a STOP published on a control channel reaches the subscribed instance
DeliverStop ==
    /\ runState = "Iterating"
    /\ subscribed # {}
    /\ ~stopFlag
    /\ UNCHANGED <<stopVars, otherVars>>
    /\ stopFlag' = TRUE
    /\ UNCHANGED <<genVars, pc, yielded, runState>>

\* the consumer has received a chunk, no stop is pending, it asks for the next one
ConsumerResume ==
    /\ runState = "Iterating" /\ yielded /\ ~stopFlag
    /\ UNCHANGED <<stopVars, otherVars>>
    /\ yielded' = FALSE
    /\ UNCHANGED <<genVars, pc, stopFlag, runState>>

\* the consumer has received a chunk and a stop is pending: it closes the generator
ConsumerStop ==
    /\ runState = "Iterating" /\ yielded /\ stopFlag
    /\ Unregister
    /\ yielded' = FALSE
    /\ pc' = "closed"
    /\ runState' = "Stopped"
    /\ UNCHANGED <<genVars, stopFlag>>

\* the terminal state that follows from the way the generator ended: an error chunk
\* or an exception makes the run Failed
FinalStatus(reason) ==
    IF reason \in {"error_response", "error_detected", "stream_exception", "thread_exception",
                   "billing_exception", "query_exception", "temporary_exception"}
    THEN "Failed"
    ELSE IF reason = "billing_denied" THEN "Stopped"
    ELSE "Completed"

\* the generator has returned, or an exception has left it
ConsumerFinish ==
    /\ runState = "Iterating" /\ ~yielded /\ pc \in {"done", "raised"}
    /\ Unregister
    /\ runState' = FinalStatus(exit_reason)
    /\ UNCHANGED <<genVars, pc, yielded, stopFlag>>

Next ==
    \/ WorkerRegister
    \/ Setup
    \/ LatestUserMessage
    \/ LoopTest
    \/ BillingCheck
    \/ LatestMessage
    \/ TemporaryMessage
    \/ RunThreadStream
    \/ RunThreadErrorResponse
    \/ RunThreadNotIterable
    \/ RunThreadRaises
    \/ NextChunk
    \/ HandleChunk
    \/ StreamEnd
    \/ StreamRaises
    \/ Verdict
    \/ DeliverStop
    \/ ConsumerResume
    \/ ConsumerStop
    \/ ConsumerFinish
    \/ ConsumerSetupError

Spec == Init /\ [][Next]_vars

\* the steps of the run itself: everything but the arrival of an external stop
RunStep ==
    \/ WorkerRegister
    \/ Setup
    \/ LatestUserMessage
    \/ LoopTest
    \/ BillingCheck
    \/ LatestMessage
    \/ TemporaryMessage
    \/ RunThreadStream
    \/ RunThreadErrorResponse
    \/ RunThreadNotIterable
    \/ RunThreadRaises
    \/ NextChunk
    \/ HandleChunk
    \/ StreamEnd
    \/ StreamRaises
    \/ Verdict
    \/ ConsumerResume
    \/ ConsumerStop
    \/ ConsumerFinish
    \/ ConsumerSetupError

\* every awaited call returns or raises, every stream ends, and the consumer keeps
\* asking the generator for its next chunk: the run is never left waiting
LiveSpec == Init /\ [][Next]_vars /\ WF_vars(RunStep)

(***************************************************************************)
(* stop_agent_run (utils.py 41-91), one step per awaited call.  Every      *)
(* Redis call either succeeds or raises.                                   *)
(***************************************************************************)
MaxFaults == 2

\* the outcomes of one Redis call: it returns, or it raises
RedisOutcomes == IF faults < MaxFaults THEN {TRUE, FALSE} ELSE {TRUE}

Fault(ok) == faults' = faults + (IF ok THEN 0 ELSE 1)

Event(op, ok, arg) == [op |-> op, ok |-> ok, arg |-> arg]

\* utils.py 63, 79: the message published on a control channel
StopSignal == "STOP"

\* utils.py 63, 79: redis.publish(channel, "STOP")
PublishEvent(ok, channel) == [op |-> "publish", ok |-> ok, arg |-> channel, msg |-> StopSignal]

Log(s, e) == trace' = [trace EXCEPT ![s] = Append(@, e)]

\* utils.py 44: "failed" if error_message else "stopped"
StopFinalStatus(msg) == IF msg # NoneValue /\ msg # "" THEN "failed" ELSE "stopped"

\* the durable record after update_agent_run_status(status, error, responses):
\* a record that already holds a terminal status accepts no further write
RecordAfterUpdate(rec, status, error, responses, ok) ==
    IF ok /\ rec.status = "running"
    THEN [status |-> status, error |-> error, responses |-> responses]
    ELSE rec

\* utils.py 41-44: stop_agent_run is called; db.client (43) is awaited outside every
\* try, so when it raises the exception leaves the invocation before any other call
StopBegin(s) ==
    /\ stop_pc[s] = "idle"
    /\ \E msg \in ErrorMessages : error_message' = [error_message EXCEPT ![s] = msg]
    /\ \E returns \in BOOLEAN :
         stop_pc' = [stop_pc EXCEPT ![s] = IF returns THEN "read" ELSE "raised"]
    /\ UNCHANGED <<loopVars, otherVars, faults, record, lists, live_keys, appended, all_responses,
                   update_success, instance_keys, trace>>

StopReadAborts(s) ==
    /\ stop_pc[s] = "read"
    /\ \E ok \in RedisOutcomes :
         /\ all_responses' = [all_responses EXCEPT ![s] =
                                 IF ok THEN lists[ResponseListKey(TargetRun)] ELSE <<>>]
         /\ Log(s, Event("lrange", ok, ResponseListKey(TargetRun)))
         /\ Fault(ok)
    /\ stop_pc' = [stop_pc EXCEPT ![s] = IF trace'[s][Len(trace'[s])].ok THEN "persist" ELSE "done"]
    /\ UNCHANGED <<loopVars, otherVars, record, lists, live_keys, appended, error_message,
                   update_success, instance_keys>>

\* utils.py 46-53: read the whole buffer; a failure leaves all_responses empty
StopRead(s) ==
    /\ stop_pc[s] = "read"
    /\ \E ok \in RedisOutcomes :
         /\ all_responses' = [all_responses EXCEPT ![s] =
                                 IF ok THEN lists[ResponseListKey(TargetRun)] ELSE <<>>]
         /\ Log(s, Event("lrange", ok, ResponseListKey(TargetRun)))
         /\ Fault(ok)
    /\ stop_pc' = [stop_pc EXCEPT ![s] = "persist"]
    /\ UNCHANGED <<loopVars, otherVars, record, lists, live_keys, appended, error_message,
                   update_success, instance_keys>>

\* utils.py 55: update_agent_run_status returns true, returns false, or raises
UpdateOutcomes == {"updated", "reported_failure", "raises"}

StopPersistRetries(s) ==
    /\ stop_pc[s] = "persist"
    /\ \E outcome \in UpdateOutcomes :
         /\ record' = RecordAfterUpdate(record, StopFinalStatus(error_message[s]),
                                        error_message[s], all_responses[s],
                                        outcome = "updated")
         /\ update_success' = [update_success EXCEPT ![s] = (outcome = "updated")]
         /\ Log(s, Event("update", outcome = "updated", all_responses[s]))
         /\ stop_pc' = [stop_pc EXCEPT ![s] =
                          IF outcome = "updated" THEN "publish_global"
                          ELSE IF outcome = "raises" THEN "raised"
                          ELSE "persist"]
    /\ UNCHANGED <<loopVars, otherVars, faults, lists, live_keys, appended, error_message, all_responses,
                   instance_keys>>

\* utils.py 55-60: persist the final status; a reported failure is only logged.  The
\* call is outside every try: when it raises, the exception leaves stop_agent_run
\* before anything is published or deleted
StopPersist(s) ==
    /\ stop_pc[s] = "persist"
    /\ \E outcome \in UpdateOutcomes :
         /\ record' = RecordAfterUpdate(record, StopFinalStatus(error_message[s]),
                                        error_message[s], all_responses[s],
                                        outcome = "updated")
         /\ update_success' = [update_success EXCEPT ![s] = (outcome = "updated")]
         /\ Log(s, Event("update", outcome = "updated", all_responses[s]))
         /\ stop_pc' = [stop_pc EXCEPT ![s] =
                          IF outcome = "raises" THEN "raised" ELSE "publish_global"]
    /\ UNCHANGED <<loopVars, otherVars, faults, lists, live_keys, appended, error_message, all_responses,
                   instance_keys>>

\* utils.py 62-67: publish STOP on the global channel
StopPublishGlobal(s) ==
    /\ stop_pc[s] = "publish_global"
    /\ \E ok \in RedisOutcomes :
         /\ Log(s, PublishEvent(ok, GlobalChannel(TargetRun)))
         /\ Fault(ok)
    /\ stop_pc' = [stop_pc EXCEPT ![s] = "keys"]
    /\ UNCHANGED <<loopVars, otherVars, record, lists, live_keys, appended, error_message,
                   all_responses, update_success, instance_keys>>

MatchingKeysAnyRun(r) == { k \in live_keys : k[1] = "active_run" }

\* utils.py 70: the keys that match active_run:*:<run id>
MatchingKeys(r) == { k \in live_keys : k[1] = "active_run" /\ k[Len(k)] = r }

StopKeysReturnsEarly(s) ==
    /\ stop_pc[s] = "keys"
    /\ \E ok \in RedisOutcomes :
         /\ instance_keys' = [instance_keys EXCEPT ![s] =
                                 IF ok THEN MatchingKeys(TargetRun) ELSE {}]
         /\ Log(s, Event("keys", ok, <<"active_run", "*", TargetRun>>))
         /\ Fault(ok)
         /\ stop_pc' = [stop_pc EXCEPT ![s] =
                          IF ok /\ MatchingKeys(TargetRun) # {} THEN "fanout" ELSE "done"]
    /\ UNCHANGED <<loopVars, otherVars, record, lists, live_keys, appended, error_message,
                   all_responses, update_success>>

\* utils.py 69-71, 88-89: enumerate the liveness keys; a failure ends the function
StopKeys(s) ==
    /\ stop_pc[s] = "keys"
    /\ \E ok \in RedisOutcomes :
         /\ instance_keys' = [instance_keys EXCEPT ![s] =
                                 IF ok THEN MatchingKeys(TargetRun) ELSE {}]
         /\ Log(s, Event("keys", ok, <<"active_run", "*", TargetRun>>))
         /\ Fault(ok)
         /\ stop_pc' = [stop_pc EXCEPT ![s] = IF ok THEN "fanout" ELSE "done"]
    /\ UNCHANGED <<loopVars, otherVars, record, lists, live_keys, appended, error_message,
                   all_responses, update_success>>

\* utils.py 73-84: one pass of the for loop, publish STOP on the instance channel
StopPublishInstance(s) ==
    /\ stop_pc[s] = "fanout"
    /\ instance_keys[s] # {}
    /\ \E key \in instance_keys[s] :
         /\ instance_keys' = [instance_keys EXCEPT ![s] = @ \ {key}]
         /\ IF Len(key) = 3
            THEN \E ok \in RedisOutcomes :
                   /\ Log(s, PublishEvent(ok, InstanceChannel(TargetRun, key[2])))
                   /\ Fault(ok)
            ELSE UNCHANGED <<trace, faults>>
    /\ UNCHANGED <<loopVars, otherVars, record, lists, live_keys, appended, stop_pc, error_message,
                   all_responses, update_success>>

\* utils.py 73: the for loop is over
StopFanoutDone(s) ==
    /\ stop_pc[s] = "fanout"
    /\ instance_keys[s] = {}
    /\ stop_pc' = [stop_pc EXCEPT ![s] = "cleanup"]
    /\ UNCHANGED <<loopVars, otherVars, faults, record, lists, live_keys, appended, error_message,
                   all_responses, update_success, instance_keys, trace>>

\* utils.py 11-17, 86: delete the buffer; a failure is only logged
StopCleanup(s) ==
    /\ stop_pc[s] = "cleanup"
    /\ \E ok \in RedisOutcomes :
         /\ lists' = IF ok THEN [lists EXCEPT ![ResponseListKey(TargetRun)] = <<>>] ELSE lists
         /\ Log(s, Event("delete", ok, ResponseListKey(TargetRun)))
         /\ Fault(ok)
    /\ stop_pc' = [stop_pc EXCEPT ![s] = "done"]
    /\ UNCHANGED <<loopVars, otherVars, record, live_keys, appended, error_message, all_responses,
                   update_success, instance_keys>>

(***************************************************************************)
(* The executing instance, seen from the stop protocol                     *)
(***************************************************************************)
MaxAppend == 2

\* the executing instance appends the next chunk to the buffer of its run
WorkerAppend ==
    /\ appended < MaxAppend
    /\ appended' = appended + 1
    /\ lists' = [lists EXCEPT ![ResponseListKey(TargetRun)] = Append(@, appended + 1)]
    /\ UNCHANGED <<loopVars, otherVars, faults, record, live_keys, stop_pc, error_message, all_responses,
                   update_success, instance_keys, trace>>

\* the executing instance reaches its natural end and persists "completed"
WorkerComplete ==
    /\ record.status = "running"
    /\ \E ok \in BOOLEAN :
         record' = RecordAfterUpdate(record, "completed", NoneValue,
                                     lists[ResponseListKey(TargetRun)], ok)
    /\ UNCHANGED <<loopVars, otherVars, faults, lists, live_keys, appended, stop_pc, error_message,
                   all_responses, update_success, instance_keys, trace>>

\* the buffers the executing instance can have written before the stop starts
InitialBuffers == { [i \in 1..n |-> i] : n \in 0..MaxAppend }

\* one stop_agent_run invocation, Redis calls may raise
StopInit ==
    /\ InitLoop
    /\ OthersIdle
    /\ max_iterations = 0
    /\ latest_type = "none"
    /\ StopIdle
    /\ \E b \in InitialBuffers :
         /\ lists = [k \in { ResponseListKey(r) : r \in Runs } |->
                       IF k = ResponseListKey(TargetRun) THEN b ELSE <<>>]
         /\ appended = Len(b)
    /\ faults = 0
    /\ live_keys \in InitialKeySets

StopNext ==
    \/ StopBegin("s1")
    \/ StopRead("s1")
    \/ StopPersist("s1")
    \/ StopPublishGlobal("s1")
    \/ StopKeys("s1")
    \/ StopPublishInstance("s1")
    \/ StopFanoutDone("s1")
    \/ StopCleanup("s1")

StopSpec == StopInit /\ [][StopNext]_vars

\* two stop_agent_run invocations race with each other and with the executing
\* instance; Redis is reliable, the status write may report a failure or raise
RaceInit ==
    /\ InitLoop
    /\ OthersIdle
    /\ max_iterations = 0
    /\ latest_type = "none"
    /\ StopIdle
    /\ lists = [k \in { ResponseListKey(r) : r \in Runs } |-> <<>>]
    /\ appended = 0
    /\ faults = MaxFaults
    /\ live_keys = {LivenessKey("i1", "r1"), LivenessKey("i1", "r2")}

RaceNext ==
    \/ \E s \in Stoppers : StopBegin(s)
    \/ \E s \in Stoppers : StopRead(s)
    \/ \E s \in Stoppers : StopPersist(s)
    \/ \E s \in Stoppers : StopPublishGlobal(s)
    \/ \E s \in Stoppers : StopKeys(s)
    \/ \E s \in Stoppers : StopPublishInstance(s)
    \/ \E s \in Stoppers : StopFanoutDone(s)
    \/ \E s \in Stoppers : StopCleanup(s)
    \/ WorkerAppend
    \/ WorkerComplete

RaceSpec == RaceInit /\ [][RaceNext]_vars

(***************************************************************************)
(* check_agent_run_limit (utils.py 94-161) over a store of threads and     *)
(* runs and the admission cache.  A call is one step per await; each of    *)
(* its awaited reads and its cache write may raise.  The store, the clock, *)
(* the expiry of cache entries and other calls go on between the steps of  *)
(* a call.                                                                 *)
(***************************************************************************)

\* the most running runs the store holds, over all accounts
MaxRuns == 4

\* config.MAX_PARALLEL_AGENT_RUNS, the limit named at utils.py 96
MaxParallelAgentRuns == 3

\* utils.py 147
CanStart(running_count) == running_count < MaxParallelAgentRuns

\* runs of the account with status running started within 24 hours of now, in
\* the threads given
RunsIn(a, thread_ids) ==
    (IF "t1" \in thread_ids THEN running[a]["t1"] ELSE 0)
        + (IF "t2" \in thread_ids THEN running[a]["t2"] ELSE 0)

\* runs of the account with status running started within 24 hours of now
RunningRuns(a) == RunsIn(a, Threads)

RunningCountWithStale(call) == RunsIn(call.account, call.thread_ids) + stale[call.account]

\* utils.py 107-108, 123, 129-143: the runs the query returns: status running, in
\* the threads the call found at 113, started after the cutoff the call fixed at
\* 107, which is 24 hours before the call and not before the query
RunningCount(call) == RunsIn(call.account, call.thread_ids) + call.aged

\* utils.py 154-161: what the except clause returns
ErrorResult == Result(TRUE, 0)

\* utils.py 115-121: what is returned for an account without threads
NoThreadsResult == Result(TRUE, 0)

\* utils.py 145-150: the decision computed from the count
ComputedResult(count) == Result(CanStart(count), count)

\* utils.py 102-104: a cache entry that is truthy
CacheHit(a) == cache[a] # <<>>

CacheAfterReturnCachesAll(a, path, result) ==
    IF path # "cached" THEN [cache EXCEPT ![a] = <<result>>] ELSE cache

CacheAfterReturnSharedKey(a, path, result) ==
    IF path = "computed" THEN [b \in Accounts |-> <<result>>] ELSE cache

\* utils.py 151: the cache when a call returns; only the way through Cache.set writes
CacheAfterReturn(a, path, result) ==
    IF path = "computed" THEN [cache EXCEPT ![a] = <<result>>] ELSE cache

\* utils.py 104, 116, 152, 156: the call of caller c for account a returns.  For a
\* decision that was computed, recent is the number of runs that were running and
\* not older than 24 hours when the runs query was answered, and quiet tells that
\* the store did not change for the account between the cache read and that query
Return(c, a, path, result, recent, quiet) ==
    /\ last_check' = [account |-> a, path |-> path, recent |-> recent, quiet |-> quiet,
                      result |-> result]
    /\ denied_before' = (/\ last_check.account = a
                         /\ last_check.path = "computed"
                         /\ ~last_check.result.can_start)
    /\ cache' = CacheAfterReturn(a, path, result)
    /\ calls' = [calls EXCEPT ![c] = IdleCall]

\* the call of caller c goes on to its next await
GoOn(c, call) ==
    /\ calls' = [calls EXCEPT ![c] = call]
    /\ UNCHANGED <<cache, last_check, denied_before>>

\* utils.py 101-108: the call is made, Cache.get returns or raises; after a miss the
\* cutoff is fixed
CheckCacheGet(c, a) ==
    /\ calls[c].pc = "idle"
    /\ \E ok \in BOOLEAN :
         IF ~ok THEN Return(c, a, "failed", ErrorResult, 0, TRUE)
         ELSE IF CacheHit(a) THEN Return(c, a, "cached", cache[a][1], 0, TRUE)
         ELSE GoOn(c, [IdleCall EXCEPT !.pc = "threads", !.account = a])
    /\ UNCHANGED <<loopVars, stopVars, workerVars, tokenVars, classifyVars, toolVars, threads, running, stale>>

\* utils.py 113-123: the threads of the account are queried
CheckThreadsQuery(c) ==
    /\ calls[c].pc = "threads"
    /\ \E ok \in BOOLEAN :
         IF ~ok
         THEN Return(c, calls[c].account, "failed", ErrorResult, 0, TRUE)
         ELSE IF threads[calls[c].account] = {}
         THEN Return(c, calls[c].account, "no_threads", NoThreadsResult, 0, TRUE)
         ELSE GoOn(c, [calls[c] EXCEPT !.pc = "runs",
                                       !.thread_ids = threads[calls[c].account]])
    /\ UNCHANGED <<loopVars, stopVars, workerVars, tokenVars, classifyVars, toolVars, threads, running, stale>>

\* utils.py 129-143: the running runs of the account are queried and counted
CheckRunsQuery(c) ==
    /\ calls[c].pc = "runs"
    /\ \E ok \in BOOLEAN :
         IF ~ok
         THEN Return(c, calls[c].account, "failed", ErrorResult, 0, TRUE)
         ELSE GoOn(c, [calls[c] EXCEPT !.pc = "set",
                                       !.count = RunningCount(calls[c]),
                                       !.recent = RunningRuns(calls[c].account)])
    /\ UNCHANGED <<loopVars, stopVars, workerVars, tokenVars, classifyVars, toolVars, threads, running, stale>>

\* utils.py 145-152: the decision is computed, written to the cache and returned
CheckCacheSet(c) ==
    /\ calls[c].pc = "set"
    /\ \E ok \in BOOLEAN :
         IF ~ok
         THEN Return(c, calls[c].account, "failed", ErrorResult, 0, TRUE)
         ELSE Return(c, calls[c].account, "computed", ComputedResult(calls[c].count),
                     calls[c].recent, calls[c].quiet)
    /\ UNCHANGED <<loopVars, stopVars, workerVars, tokenVars, classifyVars, toolVars, threads, running, stale>>

\* the call has fixed its cutoff and has not yet had the answer of its runs query
AwaitsCount(call, a) == call.account = a /\ call.pc \in {"threads", "runs"}

\* the calls in flight, once the store has changed for the account
Disturbed(a) ==
    [c \in Callers |->
        IF AwaitsCount(calls[c], a) THEN [calls[c] EXCEPT !.quiet = FALSE] ELSE calls[c]]

\* the calls in flight, once a run of the account in thread t has passed its 24
\* hours: the run started after the cutoff of every call in flight, and a call
\* that has not yet queried the threads will find the thread
DisturbedByAge(a, t) ==
    [c \in Callers |->
        IF AwaitsCount(calls[c], a)
        THEN [calls[c] EXCEPT !.quiet = FALSE,
                              !.aged = IF calls[c].pc = "threads" \/ t \in calls[c].thread_ids
                                       THEN @ + 1 ELSE @]
        ELSE calls[c]]

\* a thread is created for the account: its first, then its second
ThreadCreated(a, t) ==
    /\ t \notin threads[a]
    /\ t = "t2" => "t1" \in threads[a]
    /\ threads' = [threads EXCEPT ![a] = @ \cup {t}]
    /\ calls' = Disturbed(a)
    /\ UNCHANGED <<loopVars, stopVars, workerVars, tokenVars, classifyVars, toolVars, running, stale, cache, last_check, denied_before>>

\* number of running runs in the store
StoredRuns ==
    RunningRuns("a1") + stale["a1"] + RunningRuns("a2") + stale["a2"]

\* a run of the account starts in one of its threads
RunStarts(a, t) ==
    /\ t \in threads[a]
    /\ StoredRuns < MaxRuns
    /\ running' = [running EXCEPT ![a][t] = @ + 1]
    /\ calls' = Disturbed(a)
    /\ UNCHANGED <<loopVars, stopVars, workerVars, tokenVars, classifyVars, toolVars, threads, stale, cache, last_check, denied_before>>

\* a running run of the account reaches a terminal status
RunEnds(a, t) ==
    /\ running[a][t] > 0
    /\ running' = [running EXCEPT ![a][t] = @ - 1]
    /\ calls' = Disturbed(a)
    /\ UNCHANGED <<loopVars, stopVars, workerVars, tokenVars, classifyVars, toolVars, threads, stale, cache, last_check, denied_before>>

\* a running run of the account becomes older than 24 hours
RunAges(a, t) ==
    /\ running[a][t] > 0
    /\ running' = [running EXCEPT ![a][t] = @ - 1]
    /\ stale' = [stale EXCEPT ![a] = @ + 1]
    /\ calls' = DisturbedByAge(a, t)
    /\ UNCHANGED <<loopVars, stopVars, workerVars, tokenVars, classifyVars, toolVars, threads, cache, last_check, denied_before>>

\* the cache entry of the account expires
CacheExpire(a) ==
    /\ CacheHit(a)
    /\ cache' = [cache EXCEPT ![a] = <<>>]
    /\ UNCHANGED <<loopVars, stopVars, workerVars, tokenVars, classifyVars, toolVars, threads, running, stale, last_check, denied_before, calls>>

AdmitInit ==
    /\ InitLoop
    /\ max_iterations = 0
    /\ latest_type = "none"
    /\ StopIdle
    /\ lists = [k \in { ResponseListKey(r) : r \in Runs } |-> <<>>]
    /\ appended = 0
    /\ faults = 0
    /\ live_keys = {}
    /\ AdmitIdle
    /\ ToolIdle
    /\ subscribed = {}
    /\ TokenIdle
    /\ ClassifyIdle

\* one caller, over a store in which a1 gets its threads and has runs that start,
\* end and pass their 24 hours, and a2 gets its first thread
AdmitNext ==
    \/ \E a \in Accounts : CheckCacheGet("c1", a)
    \/ CheckThreadsQuery("c1")
    \/ CheckRunsQuery("c1")
    \/ CheckCacheSet("c1")
    \/ \E t \in Threads : ThreadCreated("a1", t)
    \/ ThreadCreated("a2", "t1")
    \/ \E t \in Threads : RunStarts("a1", t)
    \/ \E t \in Threads : RunEnds("a1", t)
    \/ \E t \in Threads : RunAges("a1", t)
    \/ \E a \in Accounts : CacheExpire(a)

AdmitSpec == AdmitInit /\ [][AdmitNext]_vars

\* two callers whose calls overlap, over a store in which a1 has a thread and runs
\* that start and end, and a2 gets its first thread
AdmitRaceInit ==
    /\ InitLoop
    /\ max_iterations = 0
    /\ latest_type = "none"
    /\ StopIdle
    /\ lists = [k \in { ResponseListKey(r) : r \in Runs } |-> <<>>]
    /\ appended = 0
    /\ faults = 0
    /\ live_keys = {}
    /\ threads = [a \in Accounts |-> IF a = "a1" THEN {"t1"} ELSE {}]
    /\ running = [a \in Accounts |-> [t \in Threads |-> 0]]
    /\ stale = [a \in Accounts |-> 0]
    /\ cache = [a \in Accounts |-> <<>>]
    /\ last_check = NoCheck
    /\ denied_before = FALSE
    /\ calls = [c \in Callers |-> IdleCall]
    /\ ToolIdle
    /\ subscribed = {}
    /\ TokenIdle
    /\ ClassifyIdle

AdmitRaceNext ==
    \/ \E c \in Callers, a \in Accounts : CheckCacheGet(c, a)
    \/ \E c \in Callers : CheckThreadsQuery(c)
    \/ \E c \in Callers : CheckRunsQuery(c)
    \/ \E c \in Callers : CheckCacheSet(c)
    \/ ThreadCreated("a2", "t1")
    \/ RunStarts("a1", "t1")
    \/ RunEnds("a1", "t1")
    \/ \E a \in Accounts : CacheExpire(a)

AdmitRaceSpec == AdmitRaceInit /\ [][AdmitRaceNext]_vars

\* the shapes of agent_config: None, a dict without 'agentpress_tools', one whose
\* 'agentpress_tools' is not a dict, one whose 'agentpress_tools' is a dict
ConfigKinds == {"none", "no_tools_key", "not_a_dict", "dict"}

ToolInit ==
    /\ InitLoop
    /\ max_iterations = 0
    /\ latest_type = "none"
    /\ StopIdle
    /\ lists = [k \in { ResponseListKey(r) : r \in Runs } |-> <<>>]
    /\ appended = 0
    /\ faults = 0
    /\ live_keys = {}
    /\ AdmitIdle
    /\ subscribed = {}
    /\ TokenIdle
    /\ ClassifyIdle
    /\ config_kind \in ConfigKinds
    /\ raw_tools \in { m \in ToolMaps(MaxEntries) : IsMap(m) } \cup PairedMaps
    /\ config_kind # "dict" => raw_tools = {}
    /\ is_suna_default \in BOOLEAN
    /\ agent_id \in BOOLEAN
    /\ config_kind = "none" => (~is_suna_default /\ ~agent_id)
    /\ rapid_api_key \in BOOLEAN
    /\ tools_pc = "config"
    /\ mcp_kind \in McpKinds
    /\ config_kind = "none" => mcp_kind = "none"
    /\ mcp_schemas \in McpSchemaSets
    /\ mcp_kind # "ok" => mcp_schemas = {}
    /\ disabled_tools = {}
    /\ catalog = {}

\* run.py 529-554: run() from its start to the loop, for every agent_config
ToolNext ==
    \/ WorkerRegister
    \/ Setup
    \/ SetupMcpTools
    \/ KnowledgeBaseContext
    \/ LatestUserMessage
    \/ ConsumerSetupError

ToolSpec == ToolInit /\ [][ToolNext]_vars

(***************************************************************************)
(* The max-output-token ceiling: AgentRunner.get_max_tokens (run.py        *)
(* 517-527), called in every iteration before run_thread (run.py 575).     *)
(* A model name is a sequence of glyphs; `marker in name.lower()` is       *)
(* substring search on the lower-cased sequence.                           *)
(***************************************************************************)

\* the longest model name, in glyphs
MaxName == 2

\* the glyphs model names are made of
ModelGlyphs == {"sonnet", "Sonnet", "gpt", "-4", "GPT", "gemini-2.5-pro", "kimi-k2", "-"}

ModelNames == UNION { [1..n -> ModelGlyphs] : n \in 0..MaxName }

\* str.lower, glyph by glyph
LowerGlyph(g) ==
    CASE g = "Sonnet" -> "sonnet"
      [] g = "GPT" -> "gpt"
      [] OTHER -> g

\* run.py 519: model_name.lower()
Lower(name) == [n \in 1..Len(name) |-> LowerGlyph(name[n])]

\* run.py 519-525: the markers looked for
SonnetMarker == <<"sonnet">>
Gpt4Marker == <<"gpt", "-4">>
GeminiMarker == <<"gemini-2.5-pro">>
KimiMarker == <<"kimi-k2">>

MaxTokensCaseSensitive(name) ==
    IF Contains(name, SonnetMarker) THEN <<8192>>
    ELSE IF Contains(name, Gpt4Marker) THEN <<4096>>
    ELSE IF Contains(name, GeminiMarker) THEN <<64000>>
    ELSE IF Contains(name, KimiMarker) THEN <<8192>>
    ELSE <<>>

\* run.py 517-527: get_max_tokens; <<>> stands for None
MaxTokens(name) ==
    IF Contains(Lower(name), SonnetMarker) THEN <<8192>>
    ELSE IF Contains(Lower(name), Gpt4Marker) THEN <<4096>>
    ELSE IF Contains(Lower(name), GeminiMarker) THEN <<64000>>
    ELSE IF Contains(Lower(name), KimiMarker) THEN <<8192>>
    ELSE <<>>

\* run.py 575: an iteration computes the ceiling it hands to run_thread
GetMaxTokens ==
    /\ token_calls < MaxIter
    /\ max_tokens' = MaxTokens(model_name)
    /\ token_calls' = token_calls + 1
    /\ UNCHANGED <<loopVars, stopVars, admitVars, toolVars, workerVars, classifyVars, model_name>>

TokenInit ==
    /\ InitLoop
    /\ max_iterations = MaxIter
    /\ latest_type = "none"
    /\ StopIdle
    /\ lists = [k \in { ResponseListKey(r) : r \in Runs } |-> <<>>]
    /\ appended = 0
    /\ faults = 0
    /\ live_keys = {}
    /\ AdmitIdle
    /\ ToolIdle
    /\ subscribed = {}
    /\ ClassifyIdle
    /\ model_name \in ModelNames
    /\ max_tokens = <<>>
    /\ token_calls = 0

TokenNext == GetMaxTokens

TokenSpec == TokenInit /\ [][TokenNext]_vars

(***************************************************************************)
(* Classification of one status chunk (run.py 622-641) as a function of    *)
(* the chunk as it arrives and of the turn's locals before it.             *)
(***************************************************************************)

\* run.py 624-626, 631-633: a field is usable when it is an object, or a
\* string that json.loads turns into one; anything else raises into 640-641
Readable(form) == form \in {"object", "json"}

\* run.py 624-628: metadata.get('agent_should_terminate')
DecodedFlag(raw) == Readable(raw.metadata_form) /\ raw.flag

\* run.py 631-638: the names the decoded content gives; none when it cannot be decoded
DecodedName(raw, name) == IF Readable(raw.content_form) THEN name ELSE "none"

\* the chunk as the classification of run.py 622-641 sees it
DecodeStatus(raw) ==
    MkChunk("status", raw.status, DecodedFlag(raw),
            DecodedName(raw, raw.function_name), DecodedName(raw, raw.xml_tag_name),
            NoText, "stream")

\* run.py 617-641: one status chunk is classified; a chunk with status "error" sets
\* error_detected and is skipped by the continue of 620
ClassifyStatus ==
    /\ ~classified
    /\ classified' = TRUE
    /\ error_detected' = ClassifyError(DecodeStatus(raw_chunk), error_detected)
    /\ agent_should_terminate' = ClassifyTerminate(DecodeStatus(raw_chunk), agent_should_terminate)
    /\ last_tool_call' = ClassifyLastTool(DecodeStatus(raw_chunk), last_tool_call)
    /\ UNCHANGED <<max_iterations, iteration_count, continue_execution, pc,
                   produced, forwarded, invocations, outcome_chunks, exit_reason, yielded,
                   stopFlag, latest_type, scenario, error_chunk_seen, resume_seen, runState,
                   admission_checks, response_kind, loop_emitted>>
    /\ UNCHANGED <<stopVars, admitVars, toolVars, workerVars, tokenVars, raw_chunk>>

\* the values the turn's locals can hold when the chunk arrives
PriorTools == {"none", "ask", "web_search"}

ClassifyInit ==
    /\ max_iterations = MaxIter
    /\ iteration_count = 0
    /\ continue_execution = TRUE
    /\ pc = "setup"
    /\ last_tool_call \in PriorTools
    /\ agent_should_terminate \in BOOLEAN
    /\ error_detected = FALSE
    /\ produced = <<>>
    /\ forwarded = <<>>
    /\ invocations = 0
    /\ outcome_chunks = 0
    /\ exit_reason = "none"
    /\ yielded = FALSE
    /\ stopFlag = FALSE
    /\ latest_type = "none"
    /\ scenario = FALSE
    /\ error_chunk_seen = FALSE
    /\ resume_seen = FALSE
    /\ runState = "Created"
    /\ admission_checks = {}
    /\ response_kind = "none"
    /\ loop_emitted = <<>>
    /\ StopIdle
    /\ lists = [k \in { ResponseListKey(r) : r \in Runs } |-> <<>>]
    /\ appended = 0
    /\ faults = 0
    /\ live_keys = {}
    /\ AdmitIdle
    /\ ToolIdle
    /\ subscribed = {}
    /\ TokenIdle
    /\ raw_chunk \in RawStatusChunks
    /\ classified = FALSE

ClassifyNext == ClassifyStatus

ClassifySpec == ClassifyInit /\ [][ClassifyNext]_vars

(***************************************************************************)
(* Properties                                                              *)
(***************************************************************************)

\* C1: with max_iterations = N the loop makes at most N run_thread calls, whatever
\* the completion engine returns.
C1_AtMostNInvocations == invocations <= max_iterations

\* the cap is reached by turns that return a stream without error or termination
C1_Witness ==
    /\ max_iterations >= 2
    /\ invocations = max_iterations
    /\ exit_reason = "max_iterations"
    /\ runState = "Completed"

\* every Redis call of the invocation returned
NoRedisFault(s) ==
    \A n \in 1..Len(trace[s]) : trace[s][n].op # "update" => trace[s][n].ok

\* the invocation made the call op on arg, and it returned
Did(s, op, arg) ==
    \E n \in 1..Len(trace[s]) :
        trace[s][n].op = op /\ trace[s][n].arg = arg /\ trace[s][n].ok

\* the invocation has ended: it has returned, or an exception has left it
StopEnded(s) == stop_pc[s] \in {"done", "raised"}

\* C2: when stop_agent_run(R) has ended (its Redis calls having returned), the buffer
\* of R is deleted and STOP was published on the global channel of R and on the channel
\* of every instance with a liveness key for R, whether the status write succeeded,
\* reported a failure or failed outright.
C2_StopCleansUpDespitePersistenceFailure ==
    (StopEnded("s1") /\ NoRedisFault("s1")) =>
        /\ Did("s1", "delete", ResponseListKey(TargetRun))
        /\ lists[ResponseListKey(TargetRun)] = <<>>
        /\ Did("s1", "publish", GlobalChannel(TargetRun))
        /\ \A k \in MatchingKeys(TargetRun) :
              Did("s1", "publish", InstanceChannel(TargetRun, k[2]))

\* C3: once STOP has been delivered to the executing instance, no run_thread call
\* begins any more.
C3_NoInvocationAfterStop == [][stopFlag => invocations' = invocations]_vars

\* positions of the generator from which no run_thread call can follow
NoTurnAhead == pc \in {"billing", "latest", "done", "closed", "raised"}

\* C5 as stated: an iteration that starts with an assistant message as latest message
\* is followed by no run_thread call, and the run ends Completed.
C5_ResumeEndsCompleted ==
    resume_seen =>
        /\ NoTurnAhead
        /\ runState \in TerminalStates => runState = "Completed"

\* C5 amended: an iteration that starts with an assistant message as latest message is
\* followed by no run_thread call.  The loop is left by the break of the resume test
\* and the run ends Completed when the billing check of that iteration allows the run
\* and the query of the latest message returns; by the denial chunk, and the run ends
\* Stopped, when the billing check denies the run; by an exception that leaves run(),
\* no chunk yielded, and the run does not end Completed, when the billing check or
\* the query raises.
C5_ResumeNoInvocation ==
    resume_seen =>
        /\ NoTurnAhead
        /\ pc \in {"done", "closed", "raised"} =>
              exit_reason \in {"resume", "billing_denied", "billing_exception", "query_exception"}
        /\ exit_reason = "resume" =>
              /\ pc = "done" /\ ~continue_execution
              /\ runState \in TerminalStates => runState = "Completed"
        /\ exit_reason = "billing_denied" =>
              /\ pc \in {"done", "closed"}
              /\ loop_emitted[Len(loop_emitted)] = BillingDeniedChunk
              /\ runState \in TerminalStates => runState = "Stopped"
        /\ exit_reason \in {"billing_exception", "query_exception"} =>
              /\ pc = "raised"
              /\ runState # "Completed"

\* the second iteration finds the assistant message of the first turn
C5_Witness ==
    /\ resume_seen
    /\ iteration_count = 2
    /\ invocations = 1
    /\ exit_reason = "resume"
    /\ runState = "Completed"

\* C6: once an error-status chunk has been taken from the stream, no further
\* iteration begins: the generator leaves the loop by the break after the stream (or
\* by the handler of an exception of the stream), and the run ends Failed or Stopped.
C6_ErrorChunkEndsRun ==
    error_chunk_seen =>
        /\ pc \in {"stream", "chunk", "verdict", "done", "closed"}
        /\ invocations = iteration_count
        /\ pc = "done" => exit_reason \in {"error_detected", "stream_exception"}
        /\ runState \in TerminalStates => runState \in {"Failed", "Stopped"}

\* the stream went on after the error chunk and carried a termination flag
C6_Witness ==
    /\ error_chunk_seen
    /\ Len(forwarded) >= 2
    /\ IsErrorChunk(forwarded[1])
    /\ agent_should_terminate
    /\ exit_reason = "error_detected"
    /\ runState = "Failed"

\* an assistant chunk of the turn, already classified, holds a sentinel closing tag
SentinelInTurn ==
    \E n \in 1..Len(forwarded) :
        /\ forwarded[n].type = "assistant"
        /\ \/ Contains(forwarded[n].text, AskTag)
           \/ Contains(forwarded[n].text, CompleteTag)
           \/ Contains(forwarded[n].text, TakeoverTag)

\* C7: a sentinel closing tag in the text of an assistant chunk makes the termination
\* verdict of the turn true, with or without the metadata flag, and no iteration
\* follows the turn.
C7_SentinelTerminates ==
    SentinelInTurn =>
        /\ TerminationDetected
        /\ pc \notin {"billing", "latest", "temporary", "invoke", "raised"}
        /\ pc = "loop" => ~continue_execution

\* the takeover tag alone, no metadata flag, ended the run
C7_Witness ==
    /\ SentinelInTurn
    /\ ~agent_should_terminate
    /\ last_tool_call = "web-browser-takeover"
    /\ exit_reason = "terminated"
    /\ runState = "Completed"

\* C8: when the first turn's stream is exactly one assistant chunk whose text ends in
\* </ask>, the run makes exactly one run_thread call, the termination verdict is true
\* with "ask" as last tool, the generator returns through the loop test with
\* continue_execution false, and (no stop being delivered) the run ends Completed.
C8_AskScenario ==
    /\ scenario =>
          /\ invocations = 1
          /\ iteration_count = 1
          /\ TerminationDetected
          /\ last_tool_call = "ask"
          /\ ~error_detected
          /\ pc \in {"verdict", "loop", "done", "closed"}
          /\ pc = "loop" => ~continue_execution
          /\ pc = "done" => exit_reason = "terminated"
    /\ (scenario /\ ~stopFlag /\ runState \in TerminalStates) => runState = "Completed"

\* the scenario with a cap that would allow more iterations
C8_Witness ==
    /\ scenario /\ ~stopFlag
    /\ max_iterations >= 2
    /\ Contains(produced[1].text, CompleteTag)
    /\ exit_reason = "terminated"
    /\ runState = "Completed"

\* C9: the chunks yielded for a turn are the chunks taken from its stream, in order,
\* and a chunk is yielded before the next one is taken.
C9_ForwardedEqualsProduced ==
    IF pc = "chunk"
    THEN produced = Append(forwarded, CurrentChunk)
    ELSE forwarded = produced

\* C10: a run that has ended has yielded exactly one status chunk that describes
\* its outcome.
C10_ExactlyOneOutcomeChunk ==
    runState \in TerminalStates => outcome_chunks = 1

\* the admission check named was performed in the current iteration
Checked(name) == \E c \in admission_checks : c.check = name

\* C11: an admission check that fails permits the run; for the billing check inside
\* the loop: a check that raises neither denies the run nor ends it with an
\* exception, the iteration goes on to the latest-message test.
C11_BillingFailsOpen ==
    [][(pc = "billing" /\ pc' # pc
        /\ [check |-> "billing", outcome |-> "raises"] \in admission_checks')
       => (pc' = "latest" /\ exit_reason' = exit_reason /\ runState' = runState)]_vars

\* C12: a call that finds the cache empty and as many running runs of the account
\* in the last 24 hours as the cap denies; the call that follows it for the same
\* account, once one of those runs has ended and the cache entry has expired, allows.
\* Stated for calls during which the store of the account is at rest.
C12_DeniesAtCapAllowsBelow ==
    (last_check.path = "computed" /\ last_check.quiet) =>
        /\ last_check.recent = MaxParallelAgentRuns => ~last_check.result.can_start
        /\ (denied_before /\ last_check.recent = MaxParallelAgentRuns - 1)
              => last_check.result.can_start

\* denied at the cap, then allowed after a run ended and the entry expired, while
\* an older run of the account is still running
C12_Witness ==
    /\ denied_before
    /\ last_check.path = "computed"
    /\ last_check.result = Result(TRUE, MaxParallelAgentRuns - 1)
    /\ last_check.recent = MaxParallelAgentRuns - 1
    /\ last_check.quiet
    /\ stale[last_check.account] = 1

\* C13: whenever the completion engine is about to be invoked, both admission
\* checks, billing and concurrency cap, have been performed in that iteration.
C13_BothChecksBeforeInvocation ==
    pc = "invoke" => (Checked("billing") /\ Checked("run_limit"))

\* C14: a denial by an admission check, in whichever iteration, is reported by one
\* status chunk made by the loop, and the loop stops: the engine is invoked neither
\* in that iteration nor later.
C14_DenialStopsLoop ==
    exit_reason = "billing_denied" =>
        /\ pc \in {"done", "closed"}
        /\ loop_emitted = <<BillingDeniedChunk>>
        /\ BillingDeniedChunk.type = "status"
        /\ invocations = iteration_count - 1
        /\ runState \in TerminalStates => runState = "Stopped"

\* the denial came in the second iteration, after one turn with the engine
C14_Witness ==
    /\ exit_reason = "billing_denied"
    /\ iteration_count = 2 /\ invocations = 1
    /\ Len(forwarded) >= 1
    /\ ~stopFlag
    /\ runState = "Stopped"

\* C15: an exception raised by the engine call or by its stream does not leave the
\* loop: it is reported by exactly one status chunk with status "error", the loop
\* stops without a further invocation, and the run ends Failed (Stopped only if a
\* stop request had been delivered by then).
C15_ExceptionCaught ==
    exit_reason \in {"thread_exception", "stream_exception"} =>
        /\ pc \in {"done", "closed"}
        /\ loop_emitted = <<LoopErrorChunk>>
        /\ LoopErrorChunk.type = "status" /\ LoopErrorChunk.status = "error"
        /\ invocations = iteration_count
        /\ runState # "SetupError"
        /\ (runState \in TerminalStates /\ ~stopFlag) => runState = "Failed"

\* the stream raised in the second turn, after a chunk of that turn was forwarded
C15_Witness ==
    /\ exit_reason = "stream_exception"
    /\ iteration_count = 2
    /\ Len(forwarded) >= 1
    /\ ~stopFlag
    /\ runState = "Failed"

\* what follows a response that is not a stream, whichever kind: nothing is taken
\* from a stream, no iteration follows, the run ends Failed
NonStreamEndsRun ==
    /\ produced = <<>> /\ forwarded = <<>>
    /\ pc \in {"verdict", "done", "closed"}
    /\ invocations = iteration_count
    /\ (runState \in TerminalStates /\ ~stopFlag) => runState = "Failed"

C17_DisabledToolOmitted ==
    (tools_pc # "config" /\ config_kind = "dict") =>
        /\ \A toolA \in ConditionalTools :
              raw_tools = {<<toolA, "false">>} => toolA \notin catalog
        /\ raw_tools = {<<"sb_presentation_tool", "false">>} =>
              (catalog \cap {"sb_presentation_tool", "sb_presentation_outline_tool"} = {})

\* C17, the part the code keeps: the tools all_tools lists are omitted when
\* disabled, and sb_presentation_outline_tool goes with sb_presentation_tool.
C17_ListedToolOmitted ==
    (tools_pc # "config" /\ config_kind = "dict") =>
        /\ \A toolA \in AllTools :
              raw_tools = {<<toolA, "false">>} => toolA \notin catalog
        /\ raw_tools = {<<"sb_presentation_tool", "false">>} =>
              (catalog \cap {"sb_presentation_tool", "sb_presentation_outline_tool"} = {})

\* both invocations for R have ended, and they were given the same error message
BothStopsDone ==
    /\ stop_pc["s1"] = "done" /\ stop_pc["s2"] = "done"
    /\ error_message["s1"] = error_message["s2"]

\* what two ended invocations with the same arguments leave behind: the terminal
\* status one invocation would have written (or that of a run that had completed
\* by itself), as output what one of them had read, and no buffer unless the
\* executing instance appended after both had read
StoppedTwiceState ==
    BothStopsDone =>
        /\ (update_success["s1"] \/ update_success["s2"]) =>
              /\ record.status \in {StopFinalStatus(error_message["s1"]), "completed"}
              /\ record.status # "completed" =>
                    \E s \in Stoppers : update_success[s] /\ record.responses = all_responses[s]
        /\ (\E s \in Stoppers : Len(all_responses[s]) = appended) =>
              lists[ResponseListKey(TargetRun)] = <<>>

\* C18: stop_agent_run invoked twice for the same run, one after the other or
\* interleaved, with the same arguments, never raises and leaves what one invocation
\* leaves: the same terminal status, the output one of them read, the buffer absent.
C18_StopIdempotent ==
    /\ \A s \in Stoppers : stop_pc[s] # "raised"
    /\ StoppedTwiceState

\* the instances that hold a liveness key for the run
RegisteredInstances(r) == { i \in Instances : LivenessKey(i, r) \in live_keys }

\* the channels on which the invocation has published STOP
PublishedChannels(s) ==
    { trace[s][n].arg : n \in { m \in 1..Len(trace[s]) :
                                   trace[s][m].op = "publish" /\ trace[s][m].ok } }

\* C19: a stop of R that has ended (its Redis calls having returned) has published
\* STOP on the global channel of R, keys or no keys, and on the instance channels of
\* exactly the instances that hold a liveness key for R; no stop ever publishes on
\* another channel.
C19_FanOutToRegisteredInstances ==
    /\ PublishedChannels("s1") \subseteq
          ({GlobalChannel(TargetRun)}
           \cup { InstanceChannel(TargetRun, i) : i \in RegisteredInstances(TargetRun) })
    /\ (stop_pc["s1"] = "done" /\ NoRedisFault("s1")) =>
          PublishedChannels("s1") =
              ({GlobalChannel(TargetRun)}
               \cup { InstanceChannel(TargetRun, i) : i \in RegisteredInstances(TargetRun) })

\* two instances hold a key for R and one of them a key for another run as well:
\* STOP went to the global channel and to the two instance channels of R
C19_Witness ==
    /\ stop_pc["s1"] = "done"
    /\ NoRedisFault("s1")
    /\ LivenessKey("i1", "r2") \in live_keys
    /\ RegisteredInstances(TargetRun) = {"i1", "i2"}
    /\ Cardinality(PublishedChannels("s1")) = 3

\* the invocation made the call op on arg, whether it returned or raised
Attempted(s, op, arg) ==
    \E n \in 1..Len(trace[s]) : trace[s][n].op = op /\ trace[s][n].arg = arg

\* the invocation made the call op on arg, and it raised
Raised(s, op, arg) ==
    \E n \in 1..Len(trace[s]) :
        trace[s][n].op = op /\ trace[s][n].arg = arg /\ ~trace[s][n].ok

\* C20: a stop that has ended has attempted every cleanup step, whichever of them
\* raised: the global publish, the key enumeration, the publish to every instance
\* the enumeration returned, and the deletion of the buffer.
C20_CleanupFailureNeverBlocks ==
    stop_pc["s1"] = "done" =>
        /\ Attempted("s1", "publish", GlobalChannel(TargetRun))
        /\ Attempted("s1", "keys", <<"active_run", "*", TargetRun>>)
        /\ ~Raised("s1", "keys", <<"active_run", "*", TargetRun>>) =>
              \A i \in RegisteredInstances(TargetRun) :
                  Attempted("s1", "publish", InstanceChannel(TargetRun, i))
        /\ Attempted("s1", "delete", ResponseListKey(TargetRun))

\* C20, the part the code keeps: a failed global publish or a failed publish to one
\* instance blocks nothing, and a stop whose key enumeration returned attempts the
\* deletion of the buffer.
C20_PublishFailureNeverBlocks ==
    stop_pc["s1"] = "done" =>
        /\ Attempted("s1", "publish", GlobalChannel(TargetRun))
        /\ Attempted("s1", "keys", <<"active_run", "*", TargetRun>>)
        /\ ~Raised("s1", "keys", <<"active_run", "*", TargetRun>>) =>
              /\ \A i \in RegisteredInstances(TargetRun) :
                    Attempted("s1", "publish", InstanceChannel(TargetRun, i))
              /\ Attempted("s1", "delete", ResponseListKey(TargetRun))

\* C22: when setup cannot resolve the account of the thread or does not find the
\* project, it raises before the loop: the run never is Iterating, no admission
\* check is made, the completion engine is not invoked and no chunk is yielded.
C22_SetupErrorBeforeLoop ==
    exit_reason = "setup_error" =>
        /\ pc = "raised"
        /\ runState \in {"Setup", "SetupError"}
        /\ iteration_count = 0
        /\ admission_checks = {}
        /\ invocations = 0
        /\ ~yielded /\ forwarded = <<>> /\ loop_emitted = <<>> /\ outcome_chunks = 0

\* setup has raised before any tool was registered, and the run has ended with
\* SetupError
C22_Witness ==
    /\ exit_reason = "setup_error"
    /\ runState = "SetupError"
    /\ tools_pc = "config"
    /\ catalog = {}
    /\ max_iterations = MaxIter

\* C23: the status stop_agent_run persists is "failed" when an error message was
\* supplied, the empty string included, and "stopped" when none was; it is never
\* "running" or "completed".
C23_FailedIffMessageSupplied ==
    (stop_pc["s1"] \notin {"idle", "read", "persist"} /\ update_success["s1"]) =>
        /\ record.status = (IF error_message["s1"] = NoneValue THEN "stopped" ELSE "failed")
        /\ record.status \notin {"running", "completed"}

\* C23, the part the code keeps: "failed" for a message that is not empty, "stopped"
\* for none and for the empty string, never "running" or "completed".
C23_FailedIffMessageTruthy ==
    (stop_pc["s1"] \notin {"idle", "read", "persist"} /\ update_success["s1"]) =>
        /\ record.status = (IF error_message["s1"] \in {NoneValue, ""} THEN "stopped" ELSE "failed")
        /\ record.status \notin {"running", "completed"}

\* the read of the buffer raised, and no other Redis call of the invocation did
OnlyReadFailed(s) ==
    /\ Raised(s, "lrange", ResponseListKey(TargetRun))
    /\ \A n \in 1..Len(trace[s]) :
          trace[s][n].op \notin {"lrange", "update"} => trace[s][n].ok

\* C24: a stop whose read of the buffer raised goes on with an empty output: the
\* status write is made with the empty output, STOP is published on the global
\* channel and on the channel of every registered instance, the buffer is deleted.
C24_ReadFailureIsEmptyBuffer ==
    /\ Raised("s1", "lrange", ResponseListKey(TargetRun)) => all_responses["s1"] = <<>>
    /\ (stop_pc["s1"] = "done" /\ OnlyReadFailed("s1")) =>
          /\ Attempted("s1", "update", <<>>)
          /\ update_success["s1"] =>
                (record.status = StopFinalStatus(error_message["s1"]) /\ record.responses = <<>>)
          /\ Did("s1", "publish", GlobalChannel(TargetRun))
          /\ \A i \in RegisteredInstances(TargetRun) :
                Did("s1", "publish", InstanceChannel(TargetRun, i))
          /\ Did("s1", "delete", ResponseListKey(TargetRun))
          /\ lists[ResponseListKey(TargetRun)] = <<>>

\* the read raised on a buffer that held chunks; the status was written, two
\* instances were notified, the buffer is gone
C24_Witness ==
    /\ stop_pc["s1"] = "done"
    /\ OnlyReadFailed("s1")
    /\ appended = MaxAppend
    /\ update_success["s1"]
    /\ record.responses = <<>>
    /\ Cardinality(RegisteredInstances(TargetRun)) = 2

\* C25: a stop of a run for which no instance holds a liveness key publishes on no
\* instance channel and, its Redis calls having returned, has published on the
\* global channel and deleted the buffer when it ends.
C25_NoOpFanOut ==
    RegisteredInstances(TargetRun) = {} =>
        /\ \A n \in 1..Len(trace["s1"]) :
              trace["s1"][n].op = "publish" => trace["s1"][n].arg = GlobalChannel(TargetRun)
        /\ (stop_pc["s1"] = "done" /\ NoRedisFault("s1")) =>
              /\ Did("s1", "keys", <<"active_run", "*", TargetRun>>)
              /\ Did("s1", "publish", GlobalChannel(TargetRun))
              /\ Did("s1", "delete", ResponseListKey(TargetRun))
              /\ lists[ResponseListKey(TargetRun)] = <<>>

\* no key at all, a buffer with chunks: the stop has ended and the buffer is gone
C25_Witness ==
    /\ live_keys = {}
    /\ stop_pc["s1"] = "done"
    /\ NoRedisFault("s1")
    /\ Len(all_responses["s1"]) = MaxAppend
    /\ lists[ResponseListKey(TargetRun)] = <<>>

\* the markers a model name holds, whatever the case of its letters
MarkersIn(name) ==
    { m \in {SonnetMarker, Gpt4Marker, GeminiMarker, KimiMarker} : Contains(Lower(name), m) }

\* C26: the ceiling computed in an iteration depends on the model name alone: 8192
\* for a sonnet name, 4096 for a gpt-4 name, 64000 for a gemini-2.5-pro name, 8192
\* for a kimi-k2 name, none for a name that holds none of the markers; every
\* iteration of a run computes the same.
C26_MaxTokensByModelName ==
    token_calls >= 1 =>
        /\ MarkersIn(model_name) = {SonnetMarker} => max_tokens = <<8192>>
        /\ MarkersIn(model_name) = {Gpt4Marker} => max_tokens = <<4096>>
        /\ MarkersIn(model_name) = {GeminiMarker} => max_tokens = <<64000>>
        /\ MarkersIn(model_name) = {KimiMarker} => max_tokens = <<8192>>
        /\ MarkersIn(model_name) = {} => max_tokens = <<>>
        /\ max_tokens = MaxTokens(model_name)

\* a gpt-4 name in capitals, in the second iteration
C26_Witness ==
    /\ token_calls = 2
    /\ model_name = <<"GPT", "-4">>
    /\ max_tokens = <<4096>>

\* the calls stop_agent_run has made on Redis, each with the name it was made on
NamesUsed(s, op) == { trace[s][n].arg : n \in { m \in 1..Len(trace[s]) : trace[s][m].op = op } }

\* every publish of the invocation carried the literal STOP
PayloadIsStop(s) ==
    \A n \in 1..Len(trace[s]) : trace[s][n].op = "publish" => trace[s][n].msg = "STOP"

\* C27: the stop protocol publishes STOP on run:<run_id>:control and on
\* run:<run_id>:control:<instance_id>, reads and deletes run:<run_id>:responses, and
\* enumerates active_run:<instance_id>:<run_id>.
C27_InterfaceNames ==
    /\ NamesUsed("s1", "publish") \subseteq
           {<<"run", TargetRun, "control">>} \cup { <<"run", TargetRun, "control", i>> : i \in Instances }
    /\ NamesUsed("s1", "lrange") \subseteq {<<"run", TargetRun, "responses">>}
    /\ NamesUsed("s1", "delete") \subseteq {<<"run", TargetRun, "responses">>}
    /\ NamesUsed("s1", "keys") \subseteq {<<"active_run", "*", TargetRun>>}
    /\ PayloadIsStop("s1")

\* what the code does instead: the channels and the buffer carry the prefix
\* agent_run, the liveness pattern and the payload are as stated
C27_AgentRunNames ==
    /\ NamesUsed("s1", "publish") \subseteq
           {<<"agent_run", TargetRun, "control">>}
              \cup { <<"agent_run", TargetRun, "control", i>> : i \in Instances }
    /\ NamesUsed("s1", "lrange") \subseteq {<<"agent_run", TargetRun, "responses">>}
    /\ NamesUsed("s1", "delete") \subseteq {<<"agent_run", TargetRun, "responses">>}
    /\ NamesUsed("s1", "keys") \subseteq {<<"active_run", "*", TargetRun>>}
    /\ PayloadIsStop("s1")

\* the chunks the durable record holds
PersistedChunks == { record.responses[n] : n \in 1..Len(record.responses) }

\* one stop_agent_run has run to its end and has written the record, no other was called
OneStopCompleted ==
    /\ stop_pc["s1"] = "done"
    /\ stop_pc["s2"] = "idle"
    /\ update_success["s1"]
    /\ record.status \in {"stopped", "failed"}

\* C28: with the executing instance appending while stop_agent_run runs, once the
\* stop has completed the buffer is absent and every chunk that was appended is in
\* the persisted output.
C28_NoChunkLost ==
    OneStopCompleted =>
        /\ lists[ResponseListKey(TargetRun)] = <<>>
        /\ \A c \in 1..appended : c \in PersistedChunks

\* the part that holds: what is persisted is a prefix of what was appended, and a
\* stop that meets no append after its read loses nothing
C28_PersistedIsPrefix ==
    OneStopCompleted =>
        /\ Len(record.responses) <= appended
        /\ \A n \in 1..Len(record.responses) : record.responses[n] = n

\* the generator is over: it has returned, was closed, or an exception has left it
RunFinished == pc \in {"done", "closed", "raised"}

\* C29: when every call returns or raises and every stream is finite, the generator
\* finishes (it returns, is closed by its consumer, or an exception leaves it), and
\* it never starts more than max_iterations iterations.
C29_RunTerminates ==
    /\ <>RunFinished
    /\ [](iteration_count <= max_iterations)
    /\ [](invocations <= iteration_count)

\* a run that met neither stop nor termination signal nor error, and was ended
\* by the cap after exactly max_iterations turns
C29_Witness ==
    /\ pc = "done"
    /\ exit_reason = "max_iterations"
    /\ max_iterations = MaxIter
    /\ iteration_count = max_iterations
    /\ invocations = max_iterations
    /\ continue_execution
    /\ ~stopFlag

\* the chunks of the turn hold an error-status chunk
ErrorInTurn == \E n \in 1..Len(forwarded) : IsErrorChunk(forwarded[n])

\* the chunks of the turn hold a termination signal: the metadata flag on a status
\* chunk, or a sentinel closing tag in assistant text
TerminationInTurn ==
    \/ \E n \in 1..Len(forwarded) :
          /\ forwarded[n].type = "status"
          /\ ~IsErrorChunk(forwarded[n])
          /\ forwarded[n].terminate
    \/ SentinelInTurn

\* a turn with both ends the run Failed, or Stopped when a stop arrived first
BothEndsFailed ==
    (ErrorInTurn /\ TerminationInTurn) =>
        /\ pc \in {"stream", "chunk", "verdict", "done", "closed"}
        /\ pc = "done" => exit_reason \in {"error_detected", "stream_exception"}
        /\ runState # "Completed"
        /\ runState = "Stopped" => stopFlag
        /\ (runState \in TerminalStates /\ ~stopFlag) => runState = "Failed"

\* the verdict of a turn whose stream held neither sends the loop back to its test
NeitherLoopsAgain ==
    (/\ pc = "verdict"
     /\ response_kind = "stream"
     /\ ~ErrorInTurn
     /\ ~TerminationInTurn
     /\ pc' # pc)
        => /\ pc' = "loop"
           /\ continue_execution' = continue_execution
           /\ continue_execution'
           /\ exit_reason' = exit_reason

\* and the test starts the next iteration exactly when the cap allows
NeitherNextIteration ==
    (/\ pc = "loop"
     /\ invocations >= 1
     /\ response_kind = "stream"
     /\ ~ErrorInTurn
     /\ ~TerminationInTurn
     /\ pc' # pc)
        => IF iteration_count < max_iterations
           THEN pc' = "billing" /\ iteration_count' = iteration_count + 1
           ELSE pc' = "done" /\ exit_reason' = "max_iterations"

\* C30: a turn whose stream holds both an error-status chunk and a termination
\* signal, in either order, ends the run Failed and never Completed; after a turn
\* whose stream came to its end and held neither, the loop starts the next iteration
\* while the cap allows.
C30_ErrorBeforeTermination ==
    /\ []BothEndsFailed
    /\ [][NeitherLoopsAgain]_vars
    /\ [][NeitherNextIteration]_vars

\* the termination flag came first, the error chunk second, the run ended Failed
C30_Witness ==
    /\ Len(forwarded) = 2
    /\ forwarded[1].type = "status" /\ forwarded[1].terminate
    /\ IsErrorChunk(forwarded[2])
    /\ TerminationDetected
    /\ exit_reason = "error_detected"
    /\ runState = "Failed"

\* the assistant text accumulated over the turn holds a sentinel closing tag
SentinelInFullResponse ==
    \/ Contains(FullResponse(forwarded), AskTag)
    \/ Contains(FullResponse(forwarded), CompleteTag)
    \/ Contains(FullResponse(forwarded), TakeoverTag)

\* C31: at the end of a turn whose accumulated assistant text holds a sentinel
\* closing tag, also one split across two consecutive chunks, the termination
\* verdict is true.
C31_SplitTagDetected ==
    (pc = "verdict" /\ response_kind = "stream" /\ SentinelInFullResponse) => TerminationDetected

\* what the code does: the verdict follows the tags held whole by one chunk
C31_WholeTagDetected ==
    (pc = "verdict" /\ response_kind = "stream" /\ ~agent_should_terminate) =>
        (TerminationDetected <=> SentinelInTurn)

\* the metadata of the chunk, an object or JSON text, carries the termination flag
CarriesFlag == raw_chunk.metadata_form \in {"object", "json"} /\ raw_chunk.flag

\* the content of the chunk, an object or JSON text, names a function or a tag
ContentNames(name) == raw_chunk.content_form \in {"object", "json"} /\ name # "none"

\* the effect of classifying one status chunk
FlagSetsTermination ==
    (~classified /\ classified') =>
        IF CarriesFlag
        THEN /\ agent_should_terminate'
             /\ TerminationDetected'
             /\ last_tool_call' =
                   (IF ContentNames(raw_chunk.function_name) THEN raw_chunk.function_name
                    ELSE IF ContentNames(raw_chunk.xml_tag_name) THEN raw_chunk.xml_tag_name
                    ELSE last_tool_call)
        ELSE /\ agent_should_terminate' = agent_should_terminate
             /\ last_tool_call' = last_tool_call
             /\ TerminationDetected' = TerminationDetected

\* C32 as stated: a status chunk whose metadata, object or JSON text, carries the
\* termination flag makes the termination verdict true and records the function
\* name of its content, or the tag name when there is no function name; a status
\* chunk without the flag changes neither.
C32_FlagSetsTermination == [][FlagSetsTermination]_vars

\* C32 amended: the same for a status chunk whose status is not "error"; a status
\* chunk with status "error" sets error_detected and, flag or no flag, changes
\* neither the termination verdict nor the recorded tool.
C32_FlagSetsTerminationUnlessError ==
    [][IF raw_chunk.status = "error"
       THEN (~classified /\ classified') =>
               /\ error_detected'
               /\ agent_should_terminate' = agent_should_terminate
               /\ last_tool_call' = last_tool_call
               /\ TerminationDetected' = TerminationDetected
       ELSE FlagSetsTermination /\ error_detected' = error_detected]_vars

\* metadata as JSON text with the flag, content naming a tag only
C32_Witness ==
    /\ classified
    /\ raw_chunk.status = "tool_completed"
    /\ ~error_detected
    /\ raw_chunk.metadata_form = "json"
    /\ raw_chunk.flag
    /\ raw_chunk.content_form = "json"
    /\ raw_chunk.function_name = "none"
    /\ raw_chunk.xml_tag_name = "complete"
    /\ agent_should_terminate
    /\ last_tool_call = "complete"

\* where in the invocation's sequence of calls the calls of one kind stand
Positions(s, op) == { n \in 1..Len(trace[s]) : trace[s][n].op = op }

GlobalPublishes(s) == { n \in Positions(s, "publish") : trace[s][n].arg = GlobalChannel(TargetRun) }

InstancePublishes(s) == Positions(s, "publish") \ GlobalPublishes(s)

AllBefore(A, B) == \A a \in A, b \in B : a < b

RaisedAtClient(s) == stop_pc[s] = "raised" /\ trace[s] = <<>>

CheckReturned(a) == last_check' # last_check /\ last_check'.account = a

\* a call for account a has just returned from its cache read (utils.py 102-104)
ReturnedFromCacheGet(a) == CheckReturned(a) /\ calls' = calls

\* a call for account a has just taken a step
CallStepped(a) ==
    \/ CheckReturned(a)
    \/ \E c \in Callers :
          /\ calls'[c] # calls[c]
          /\ a \in {calls[c].account, calls'[c].account}

\* a call whose cache read returns a live entry answers with the entry and touches
\* neither the store nor the cache; only a call whose cache read found no live
\* entry goes on to query the store
LiveEntryAnswers ==
    /\ \A a \in Accounts :
          (ReturnedFromCacheGet(a) /\ CacheHit(a) /\ last_check'.path # "failed") =>
              /\ last_check'.path = "cached"
              /\ last_check'.result = cache[a][1]
              /\ cache' = cache
    /\ \A c \in Callers :
          (calls[c].pc = "idle" /\ calls'[c].pc # "idle") =>
              /\ calls'[c].pc = "threads"
              /\ ~CacheHit(calls'[c].account)

\* a step of a call for one account leaves the entry of every other account as it was
OtherEntriesUntouched ==
    \A a \in Accounts : \A b \in Accounts \ {a} : CallStepped(b) => cache'[a] = cache[a]

\* C34: while the cache entry of an account is live, a check made for that account
\* returns the cached decision without querying the store, whatever the running
\* runs have become; a check for another account neither reads nor writes the entry.
C34_CacheKeyedByAccount ==
    /\ [][LiveEntryAnswers]_vars
    /\ [][OtherEntriesUntouched]_vars

\* a1 was answered from its entry although its running runs have changed since,
\* while a2 holds a different entry of its own
C34_Witness ==
    /\ last_check.account = "a1"
    /\ last_check.path = "cached"
    /\ CacheHit("a1")
    /\ last_check.result = cache["a1"][1]
    /\ last_check.result.running_count # RunningRuns("a1")
    /\ CacheHit("a2")
    /\ cache["a2"] # cache["a1"]

\* every decision in the cache was computed from a count: can_start = (count < cap)
CachedDecisionsComputed ==
    \A a \in Accounts :
        CacheHit(a) =>
            cache[a][1].can_start = (cache[a][1].running_count < MaxParallelAgentRuns)

\* a call that failed, or that found no threads, leaves the cache as it was
NoWriteWithoutCount ==
    \A a \in Accounts :
        (CheckReturned(a) /\ last_check'.path \in {"failed", "no_threads"}) => cache' = cache

\* an entry appears or changes only by a call that had counted the running runs of
\* the account, and holds the decision that call computed from its count and returned
WriteIsComputedDecision ==
    \A a \in Accounts :
        (cache'[a] # cache[a] /\ cache'[a] # <<>>) =>
            /\ last_check'.account = a
            /\ last_check'.path = "computed"
            /\ cache'[a] = <<last_check'.result>>
            /\ \E c \in Callers :
                  /\ calls[c].pc = "set"
                  /\ calls[c].account = a
                  /\ calls'[c].pc = "idle"
                  /\ last_check'.result = ComputedResult(calls[c].count)

\* C35: check_agent_run_limit caches only a decision computed from a successful
\* count of running runs; the fail-open result and the no-threads result are
\* never cached; every cached decision has can_start = (running_count < cap).
C35_OnlyComputedDecisionsCached ==
    /\ []CachedDecisionsComputed
    /\ [][NoWriteWithoutCount]_vars
    /\ [][WriteIsComputedDecision]_vars

\* a call for a1 failed while a1 had running runs and left no entry, while another
\* call for a1 has counted a1 at its cap and is about to cache the denial; a2 was
\* answered before it had threads and has no entry
C35_Witness ==
    /\ last_check.account = "a1"
    /\ last_check.path = "failed"
    /\ RunningRuns("a1") >= 1
    /\ cache = [a \in Accounts |-> <<>>]
    /\ \E c \in Callers :
          /\ calls[c].pc = "set"
          /\ calls[c].account = "a1"
          /\ calls[c].count = MaxParallelAgentRuns

\* the turn has detected an error or a termination signal
Detected == error_detected \/ TerminationDetected

\* a chunk that arrives after the detecting chunk is forwarded, and the loop goes
\* back to the stream
ForwardedAfterDetection ==
    (pc = "chunk" /\ Detected /\ pc' # pc) =>
        /\ pc' = "stream"
        /\ forwarded' = Append(forwarded, CurrentChunk)
        /\ continue_execution' = continue_execution
        /\ exit_reason' = exit_reason

\* the decision of the turn is taken at the verdict, which a stream reaches only by
\* coming to its end with everything forwarded
DecisionAfterStream ==
    /\ (exit_reason' = "error_detected" /\ exit_reason # "error_detected") => pc = "verdict"
    /\ (continue_execution /\ ~continue_execution' /\ pc # "latest") => pc = "verdict"
    /\ (pc' = "verdict" /\ pc # "verdict" /\ response_kind' = "stream") =>
          (pc = "stream" /\ forwarded = produced)

\* C36: detecting an error-status chunk or a termination signal does not cut the
\* turn short: the chunk and every chunk after it are forwarded, the stream is
\* consumed to its end, and only then is the continue/stop decision taken.
C36_StreamNotCutShort ==
    /\ [][ForwardedAfterDetection]_vars
    /\ [][DecisionAfterStream]_vars
    /\ []((pc \in {"stream", "chunk"} /\ Detected) => (continue_execution /\ exit_reason = "none"))
    /\ []((pc = "verdict" /\ response_kind = "stream") => forwarded = produced)

\* the map says nothing about the tool, or gives it one of the values named
MappedWithin(t, values) == \A p \in raw_tools : p[1] = t => p[2] \in values

\* a configuration that is missing or no map, or an empty map on a default agent,
\* disables nothing; the core tools are registered whatever the map
DefaultsDisableNothing ==
    tools_pc # "config" =>
        /\ config_kind # "dict" => disabled_tools = {}
        /\ (config_kind = "dict" /\ is_suna_default /\ raw_tools = {}) => disabled_tools = {}
        /\ CoreTools \subseteq catalog

\* C37 as stated: a tool absent from the enablement map, or mapped to true or to an object
\* without enabled = false, is not disabled; a missing or non-map configuration,
\* and an empty map on a default agent, disable nothing; the core tools are
\* registered for every map.
C37_EnabledByDefault ==
    /\ DefaultsDisableNothing
    /\ tools_pc # "config" =>
          \A t \in ConfigNames :
              MappedWithin(t, {"true", "dict_enabled", "dict_null", "dict_empty"})
                  => t \notin disabled_tools

\* C37 amended: a tool absent from the map, or mapped to true or to an object whose
\* enabled is absent or true, is not disabled, unless it is
\* sb_presentation_outline_tool and sb_presentation_tool is disabled: the outline
\* tool is disabled whenever sb_presentation_tool is, whatever the map says about
\* it.  A configuration that is missing or no map, and an empty map on a default
\* agent, disable nothing; the core tools are registered for every map.
C37_EnabledUnlessFalsy ==
    /\ DefaultsDisableNothing
    /\ tools_pc # "config" =>
          /\ \A t \in ConfigNames :
                (MappedWithin(t, {"true", "dict_enabled", "dict_empty"}) /\ t \in disabled_tools)
                    => (t = "sb_presentation_outline_tool"
                        /\ "sb_presentation_tool" \in disabled_tools)
          /\ "sb_presentation_tool" \in disabled_tools
                => "sb_presentation_outline_tool" \in disabled_tools

\* the map enables the outline tool and disables sb_presentation_tool: the outline
\* tool is disabled all the same and not registered, while the core tools are
C37_Witness ==
    /\ tools_pc = "mcp_done"
    /\ config_kind = "dict"
    /\ raw_tools = {<<"sb_presentation_tool", "false">>,
                    <<"sb_presentation_outline_tool", "true">>}
    /\ disabled_tools = {"sb_presentation_tool", "sb_presentation_outline_tool"}
    /\ "sb_presentation_outline_tool" \notin catalog
    /\ CoreTools \subseteq catalog

====
